---- MODULE Spec2Model ----
(***************************************************************************)
(* A model of the runtime parsing engine of argp:                          *)
(*   argp/src/parser.rs        parse_struct_args and its helpers           *)
(*   argp_derive/src/lib.rs    the generated _from_args of a struct / enum *)
(*   argp/src/error.rs         Error and MissingRequirements               *)
(* A token is a sequence of characters (one-character strings), so that    *)
(* the length tests and the splitting of a short-option bundle are         *)
(* computed as the code computes them.                                     *)
(***************************************************************************)
EXTENDS Integers, Sequences, FiniteSets, TLC

VARIABLES root, called_as, args, stack, outcome, given, result

vars == <<root, called_as, args, stack, outcome, given, result>>

(***************************************************************************)
(* Bounds of the model.                                                    *)
(***************************************************************************)
MaxLen == 4

MaxLiveLen == 3

(***************************************************************************)
(* Tokens.                                                                 *)
(***************************************************************************)
t_dd == <<"-", "-">>

t_help_long == <<"-", "-", "h", "e", "l", "p">>

t_h == <<"-", "h">>

t_help == <<"h", "e", "l", "p">>

t_flag == <<"-", "-", "f", "l", "a", "g">>

t_foo == <<"-", "-", "f", "o", "o">>

t_fooey == <<"-", "-", "f", "o", "o", "e", "y">>

t_first == <<"f", "i", "r", "s", "t">>

t_second == <<"s", "e", "c", "o", "n", "d">>

t_one == <<"o", "n", "e">>

t_two == <<"t", "w", "o">>

t_sub == <<"s", "u", "b">>

t_cmdname == <<"c", "m", "d", "n", "a", "m", "e">>

t_strs == <<"s", "t", "r", "s">>

t_bar == <<"b", "a", "r">>

t_msg == <<"-", "-", "m", "s", "g">>

t_abc == <<"a", "b", "c">>

t_xyz == <<"x", "y", "z">>

t_three == <<"t", "h", "r", "e", "e">>

t_four == <<"f", "o", "u", "r">>

t_five == <<"f", "i", "v", "e">>

t_hi == <<"h", "i">>

t_fooey_word == <<"f", "o", "o", "e", "y">>

t_foo_word == <<"f", "o", "o">>

Short(c) == <<"-", c>>

Long(c) == <<"-", "-", c>>

Word(c) == <<c>>

\* A byte that makes an OsStr invalid as UTF-8 text.
InvalidByte == "\\xFF"

\* A character whose UTF-8 encoding takes two bytes.
EAcute == "\\u00E9"

\* The length in bytes of the UTF-8 encoding of a character and of a text.
ByteLen(c) == IF c = EAcute THEN 2 ELSE 1

RECURSIVE ByteLength(_)
ByteLength(t) == IF t = << >> THEN 0 ELSE ByteLen(Head(t)) + ByteLength(Tail(t))

Digits == <<"0", "1", "2", "3", "4", "5", "6", "7", "8", "9">>

(***************************************************************************)
(* Schemas: the tables the derive macro generates for each struct.         *)
(*   name          CommandInfo.name of a subcommand struct                 *)
(*   arg_to_slot   ParseStructOptions.arg_to_slot                          *)
(*   slots         one entry per option or switch field, in field order    *)
(*   slots_global  ParseStructOptions.slots_global                         *)
(*   positionals   one entry per positional field, in field order          *)
(*   greedy        the last positional has the `greedy` attribute          *)
(*   subcommand    << >> or one entry: optionality, whether the field's    *)
(*                 type is a subcommand enum, and its COMMANDS (struct     *)
(*                 type names, in variant order)                           *)
(* Optionality is "None" (required), "Optional", "Repeating", "Defaulted". *)
(***************************************************************************)
NoSub == << >>

\* tests/lib.rs positional::double_dash
StringList ==
    [name |-> << >>,
     arg_to_slot |-> << <<t_flag, 1>> >>,
     slots |-> << [kind |-> "Flag", ty |-> "bool", opt |-> "Optional", long |-> t_flag] >>,
     slots_global |-> << FALSE >>,
     positionals |-> << [name |-> t_strs, opt |-> "Repeating", ty |-> "String"] >>,
     greedy |-> FALSE,
     subcommand |-> NoSub]

\* tests/lib.rs options::ShortCombined
ShortCombined ==
    [name |-> << >>,
     arg_to_slot |-> << <<Short("n"), 1>>, <<Long("n"), 1>>,
                        <<Short("q"), 2>>, <<Long("q"), 2>>,
                        <<Short("v"), 3>>, <<Long("v"), 3>> >>,
     slots |-> << [kind |-> "Value", ty |-> "usize", opt |-> "None", long |-> Long("n")],
                  [kind |-> "Flag", ty |-> "bool", opt |-> "Optional", long |-> Long("q")],
                  [kind |-> "Flag", ty |-> "bool", opt |-> "Optional", long |-> Long("v")] >>,
     slots_global |-> << FALSE, FALSE, FALSE >>,
     positionals |-> << >>,
     greedy |-> FALSE,
     subcommand |-> NoSub]

\* tests/lib.rs fuchsia_commandline_tools_rubric::OneOption
OneOption ==
    [name |-> << >>,
     arg_to_slot |-> << <<t_foo, 1>> >>,
     slots |-> << [kind |-> "Value", ty |-> "String", opt |-> "None", long |-> t_foo] >>,
     slots_global |-> << FALSE >>,
     positionals |-> << >>,
     greedy |-> FALSE,
     subcommand |-> NoSub]

\* tests/lib.rs fuchsia_commandline_tools_rubric::HelpTopLevel
HelpTopLevel ==
    [name |-> << >>,
     arg_to_slot |-> << >>,
     slots |-> << >>,
     slots_global |-> << >>,
     positionals |-> << >>,
     greedy |-> FALSE,
     subcommand |-> << [opt |-> "None", enum |-> FALSE, commands |-> << "HelpFirstSub" >>,
                        dynamic |-> << >>] >>]

HelpFirstSub ==
    [name |-> t_first,
     arg_to_slot |-> << >>,
     slots |-> << >>,
     slots_global |-> << >>,
     positionals |-> << >>,
     greedy |-> FALSE,
     subcommand |-> << [opt |-> "None", enum |-> FALSE, commands |-> << "HelpSecondSub" >>,
                        dynamic |-> << >>] >>]

HelpSecondSub ==
    [name |-> t_second,
     arg_to_slot |-> << >>,
     slots |-> << >>,
     slots_global |-> << >>,
     positionals |-> << >>,
     greedy |-> FALSE,
     subcommand |-> NoSub]

\* tests/lib.rs global_options::TopLevel
TopLevel ==
    [name |-> << >>,
     arg_to_slot |-> << <<Long("a"), 1>>, <<Long("x"), 2>> >>,
     slots |-> << [kind |-> "Value", ty |-> "usize", opt |-> "Defaulted", long |-> Long("a"),
                   default |-> 0],
                  [kind |-> "Value", ty |-> "usize", opt |-> "Defaulted", long |-> Long("x"),
                   default |-> 0] >>,
     slots_global |-> << TRUE, FALSE >>,
     positionals |-> << >>,
     greedy |-> FALSE,
     subcommand |-> << [opt |-> "None", enum |-> TRUE, commands |-> << "SubCommandOne" >>,
                        dynamic |-> << >>] >>]

SubCommandOne ==
    [name |-> t_one,
     arg_to_slot |-> << <<Long("b"), 1>> >>,
     slots |-> << [kind |-> "Flag", ty |-> "bool", opt |-> "Optional", long |-> Long("b")] >>,
     slots_global |-> << TRUE >>,
     positionals |-> << >>,
     greedy |-> FALSE,
     subcommand |-> << [opt |-> "Optional", enum |-> TRUE, commands |-> << "SubCommandTwo" >>,
                        dynamic |-> << >>] >>]

SubCommandTwo ==
    [name |-> t_two,
     arg_to_slot |-> << <<t_fooey, 1>> >>,
     slots |-> << [kind |-> "Flag", ty |-> "bool", opt |-> "Optional", long |-> t_fooey] >>,
     slots_global |-> << FALSE >>,
     positionals |-> << >>,
     greedy |-> FALSE,
     subcommand |-> NoSub]

\* A root whose global option --a is declared again by its subcommand, and
\* whose subcommand takes a repeating positional.
ShadowTop ==
    [name |-> << >>,
     arg_to_slot |-> << <<Short("a"), 1>>, <<Long("a"), 1>>, <<Long("g"), 2>> >>,
     slots |-> << [kind |-> "Value", ty |-> "String", opt |-> "Optional", long |-> Long("a")],
                  [kind |-> "Flag", ty |-> "bool", opt |-> "Optional", long |-> Long("g")] >>,
     slots_global |-> << TRUE, TRUE >>,
     positionals |-> << >>,
     greedy |-> FALSE,
     subcommand |-> << [opt |-> "Optional", enum |-> TRUE, commands |-> << "ShadowSub" >>,
                        dynamic |-> << >>] >>]

ShadowSub ==
    [name |-> t_sub,
     arg_to_slot |-> << <<Long("a"), 1>> >>,
     slots |-> << [kind |-> "Value", ty |-> "String", opt |-> "Optional", long |-> Long("a")] >>,
     slots_global |-> << FALSE >>,
     positionals |-> << [name |-> t_strs, opt |-> "Repeating", ty |-> "String"] >>,
     greedy |-> FALSE,
     subcommand |-> NoSub]

\* tests/lib.rs parser::option_repeating, struct Cmd
OptionRepeating ==
    [name |-> << >>,
     arg_to_slot |-> << <<t_msg, 1>> >>,
     slots |-> << [kind |-> "Value", ty |-> "String", opt |-> "Repeating", long |-> t_msg] >>,
     slots_global |-> << FALSE >>,
     positionals |-> << >>,
     greedy |-> FALSE,
     subcommand |-> NoSub]

\* tests/lib.rs dynamic_subcommand_example::SubCommandOne
DynSubCommandOne ==
    [name |-> t_one,
     arg_to_slot |-> << <<Long("x"), 1>> >>,
     slots |-> << [kind |-> "Value", ty |-> "usize", opt |-> "None", long |-> Long("x")] >>,
     slots_global |-> << FALSE >>,
     positionals |-> << >>,
     greedy |-> FALSE,
     subcommand |-> NoSub]

\* tests/lib.rs dynamic_subcommand_example::TopLevel with MySubCommandEnum
DynTopLevel ==
    [name |-> << >>,
     arg_to_slot |-> << >>,
     slots |-> << >>,
     slots_global |-> << >>,
     positionals |-> << >>,
     greedy |-> FALSE,
     subcommand |-> << [opt |-> "None", enum |-> TRUE,
                        commands |-> << "DynSubCommandOne", "SubCommandTwo" >>,
                        dynamic |-> << t_three, t_four, t_five >>] >>]

\* tests/lib.rs positional::LastRequired
LastRequired ==
    [name |-> << >>,
     arg_to_slot |-> << >>,
     slots |-> << >>,
     slots_global |-> << >>,
     positionals |-> << [name |-> Word("a"), opt |-> "None", ty |-> "u32"],
                        [name |-> Word("b"), opt |-> "None", ty |-> "u32"] >>,
     greedy |-> FALSE,
     subcommand |-> NoSub]

\* tests/lib.rs positional::WithOption
WithOption ==
    [name |-> << >>,
     arg_to_slot |-> << <<Long("b"), 1>> >>,
     slots |-> << [kind |-> "Value", ty |-> "String", opt |-> "None", long |-> Long("b")] >>,
     slots_global |-> << FALSE >>,
     positionals |-> << [name |-> Word("a"), opt |-> "None", ty |-> "String"] >>,
     greedy |-> FALSE,
     subcommand |-> NoSub]

\* tests/lib.rs positional::LastRepeatingGreedy
LastRepeatingGreedy ==
    [name |-> << >>,
     arg_to_slot |-> << <<Long("b"), 1>>, <<Long("c"), 2>> >>,
     slots |-> << [kind |-> "Flag", ty |-> "bool", opt |-> "Optional", long |-> Long("b")],
                  [kind |-> "Value", ty |-> "String", opt |-> "Optional", long |-> Long("c")] >>,
     slots_global |-> << FALSE, FALSE >>,
     positionals |-> << [name |-> Word("a"), opt |-> "None", ty |-> "u32"],
                        [name |-> Word("d"), opt |-> "Repeating", ty |-> "String"] >>,
     greedy |-> TRUE,
     subcommand |-> NoSub]

\* A struct with a greedy final positional and an optional subcommand field,
\* as the derive accepts it (derive lib.rs 314-321, 375-397).
GreedyTop ==
    [name |-> << >>,
     arg_to_slot |-> << >>,
     slots |-> << >>,
     slots_global |-> << >>,
     positionals |-> << [name |-> Word("d"), opt |-> "Repeating", ty |-> "String"] >>,
     greedy |-> TRUE,
     subcommand |-> << [opt |-> "Optional", enum |-> FALSE, commands |-> << "SubCommandTwo" >>,
                        dynamic |-> << >>] >>]

\* tests/lib.rs default_number, struct Cmd
DefaultNumber ==
    [name |-> << >>,
     arg_to_slot |-> << <<Long("x"), 1>> >>,
     slots |-> << [kind |-> "Value", ty |-> "u8", opt |-> "Defaulted", long |-> Long("x"),
                   default |-> 5] >>,
     slots_global |-> << FALSE >>,
     positionals |-> << >>,
     greedy |-> FALSE,
     subcommand |-> NoSub]

\* tests/lib.rs parser::no_args, struct Cmd
NoArgs ==
    [name |-> << >>,
     arg_to_slot |-> << <<t_msg, 1>> >>,
     slots |-> << [kind |-> "Value", ty |-> "String", opt |-> "Optional", long |-> t_msg] >>,
     slots_global |-> << FALSE >>,
     positionals |-> << >>,
     greedy |-> FALSE,
     subcommand |-> NoSub]

\* A struct with one switch of each kind of Flag receiver (parser.rs 412-446).
Switches ==
    [name |-> << >>,
     arg_to_slot |-> << <<Long("q"), 1>>, <<Short("v"), 2>>, <<Long("o"), 3>> >>,
     slots |-> << [kind |-> "Flag", ty |-> "bool", opt |-> "Optional", long |-> Long("q")],
                  [kind |-> "Flag", ty |-> "u8", opt |-> "Optional", long |-> Long("v")],
                  [kind |-> "Flag", ty |-> "Option<bool>", opt |-> "Optional", long |-> Long("o")] >>,
     slots_global |-> << FALSE, FALSE, FALSE >>,
     positionals |-> << >>,
     greedy |-> FALSE,
     subcommand |-> NoSub]

\* tests/lib.rs parser::handles_args_with_invalid_utf8, struct Cmd
InvalidUtf8Cmd ==
    [name |-> << >>,
     arg_to_slot |-> << <<Short("m"), 1>>, <<t_msg, 1>> >>,
     slots |-> << [kind |-> "Value", ty |-> "OsString", opt |-> "None", long |-> t_msg] >>,
     slots_global |-> << FALSE >>,
     positionals |-> << [name |-> <<"p", "a", "t", "h">>, opt |-> "None", ty |-> "PathBuf"] >>,
     greedy |-> FALSE,
     subcommand |-> NoSub]

\* tests/lib.rs subcommand_does_not_panic::SubCommand
OneSubCommand ==
    [name |-> t_one,
     arg_to_slot |-> << >>,
     slots |-> << >>,
     slots_global |-> << >>,
     positionals |-> << [name |-> Word("x"), opt |-> "None", ty |-> "usize"] >>,
     greedy |-> FALSE,
     subcommand |-> NoSub]

\* tests/lib.rs switch_repeating (1617-1628), with the counter narrowed to u8
\* and the bool switch of tests/lib.rs switch_on next to it.
SwitchRepeating ==
    [name |-> << >>,
     arg_to_slot |-> << <<Short("v"), 1>>, <<Long("v"), 1>>,
                        <<Short("f"), 2>>, <<Long("f"), 2>> >>,
     slots |-> << [kind |-> "Flag", ty |-> "u8", opt |-> "Optional", long |-> Long("v")],
                  [kind |-> "Flag", ty |-> "bool", opt |-> "Optional", long |-> Long("f")] >>,
     slots_global |-> << FALSE, FALSE >>,
     positionals |-> << >>,
     greedy |-> FALSE,
     subcommand |-> NoSub]

\* tests/lib.rs positional::Subcommand
Subcommand ==
    [name |-> Word("a"),
     arg_to_slot |-> << >>,
     slots |-> << >>,
     slots_global |-> << >>,
     positionals |-> << [name |-> Word("a"), opt |-> "None", ty |-> "String"],
                        [name |-> Word("b"), opt |-> "Repeating", ty |-> "String"] >>,
     greedy |-> FALSE,
     subcommand |-> NoSub]

\* tests/lib.rs positional::WithSubcommand
WithSubcommand ==
    [name |-> << >>,
     arg_to_slot |-> << >>,
     slots |-> << >>,
     slots_global |-> << >>,
     positionals |-> << [name |-> Word("a"), opt |-> "None", ty |-> "String"],
                        [name |-> Word("c"), opt |-> "Repeating", ty |-> "String"] >>,
     greedy |-> FALSE,
     subcommand |-> << [opt |-> "None", enum |-> FALSE, commands |-> << "Subcommand" >>,
                        dynamic |-> << >>] >>]

GlobalLeaf ==
    [name |-> Word("l"),
     arg_to_slot |-> << >>,
     slots |-> << >>,
     slots_global |-> << >>,
     positionals |-> << >>,
     greedy |-> FALSE,
     subcommand |-> NoSub]

GlobalMid ==
    [name |-> Word("m"),
     arg_to_slot |-> << <<Long("r"), 1>> >>,
     slots |-> << [kind |-> "Value", ty |-> "String", opt |-> "Optional", long |-> Long("r")] >>,
     slots_global |-> << FALSE >>,
     positionals |-> << >>,
     greedy |-> FALSE,
     subcommand |-> << [opt |-> "None", enum |-> FALSE, commands |-> << "GlobalLeaf" >>,
                        dynamic |-> << >>] >>]

\* A chain of three levels: the root requires its global option --r, the
\* subcommand `m` declares --r again as an option of its own and requires the
\* subcommand `l`, which declares nothing (derive lib.rs 350-405 for a
\* required `#[argp(option, global)]` field).
GlobalTop ==
    [name |-> << >>,
     arg_to_slot |-> << <<Long("r"), 1>> >>,
     slots |-> << [kind |-> "Value", ty |-> "String", opt |-> "None", long |-> Long("r")] >>,
     slots_global |-> << TRUE >>,
     positionals |-> << >>,
     greedy |-> FALSE,
     subcommand |-> << [opt |-> "None", enum |-> FALSE, commands |-> << "GlobalMid" >>,
                        dynamic |-> << >>] >>]

Schemas ==
    [StringList |-> StringList, ShortCombined |-> ShortCombined,
     OneOption |-> OneOption, HelpTopLevel |-> HelpTopLevel,
     HelpFirstSub |-> HelpFirstSub, HelpSecondSub |-> HelpSecondSub,
     TopLevel |-> TopLevel, SubCommandOne |-> SubCommandOne,
     SubCommandTwo |-> SubCommandTwo, ShadowTop |-> ShadowTop,
     ShadowSub |-> ShadowSub,
     OptionRepeating |-> OptionRepeating,
     DynSubCommandOne |-> DynSubCommandOne,
     DynTopLevel |-> DynTopLevel,
     LastRequired |-> LastRequired,
     WithOption |-> WithOption,
     LastRepeatingGreedy |-> LastRepeatingGreedy,
     GreedyTop |-> GreedyTop,
     DefaultNumber |-> DefaultNumber,
     NoArgs |-> NoArgs,
     Switches |-> Switches,
     InvalidUtf8Cmd |-> InvalidUtf8Cmd,
     OneSubCommand |-> OneSubCommand,
     SwitchRepeating |-> SwitchRepeating,
     Subcommand |-> Subcommand,
     WithSubcommand |-> WithSubcommand,
     GlobalLeaf |-> GlobalLeaf,
     GlobalMid |-> GlobalMid,
     GlobalTop |-> GlobalTop]

\* The types from_args is called on, and the tokens given to each.
Roots ==
    {"StringList", "ShortCombined", "OneOption", "HelpTopLevel", "TopLevel", "ShadowTop",
     "OptionRepeating",
     "DynTopLevel",
     "LastRequired",
     "WithOption",
     "LastRepeatingGreedy",
     "GreedyTop",
     "DefaultNumber",
     "NoArgs",
     "Switches",
     "InvalidUtf8Cmd",
     "WithSubcommand",
     "GlobalTop"}

Alphabet(r) ==
    CASE r = "StringList" ->
           {t_dd, t_flag, Short("a"), Word("b"), t_help_long, t_help}
      [] r = "ShortCombined" ->
           {<<"-", "q", "v">>, <<"-", "q", "v", "n">>, <<"-", "n", "q">>,
            <<"-", "q", "h">>, Short("n"), Word("5"), t_help}
      [] r = "OneOption" ->
           {t_foo, t_bar, t_help, t_help_long, t_h, t_dd}
      [] r = "HelpTopLevel" ->
           {t_help, t_help_long, t_first, t_second, Short("a"), t_dd}
      [] r = "TopLevel" ->
           {Long("a"), Long("x"), Long("b"), t_one, t_two, Word("2"), t_help_long}
      [] r = "ShadowTop" ->
           {Long("a"), Short("a"), Long("g"), t_sub, Word("b"), t_dd, t_h}
      [] r = "OptionRepeating" ->
           {t_msg, t_abc, t_xyz}
      [] r = "DynTopLevel" ->
           {t_one, t_three, t_four, Long("x"), Word("2"), t_help_long}
      [] r = "LastRequired" ->
           {Word("5"), Word("6"), Word("7"), Word("x"), t_help}
      [] r = "WithOption" ->
           {t_first, Long("b"), t_foo, t_dd}
      [] r = "LastRepeatingGreedy" ->
           {Word("5"), t_hi, Long("b"), Long("c"), t_dd, t_help}
      [] r = "GreedyTop" ->
           {Word("b"), t_two, t_fooey, t_dd}
      [] r = "DefaultNumber" ->
           {Long("x"), Word("7"), <<"3", "0", "0">>}
      [] r = "NoArgs" ->
           {t_msg, t_abc}
      [] r = "Switches" ->
           {Long("q"), Short("v"), Long("o")}
      [] r = "InvalidUtf8Cmd" ->
           {Short("m"), <<"f", InvalidByte>>, <<"-", InvalidByte>>, <<"-", EAcute>>, <<"-">>,
            << >>, t_help_long}
      [] r = "WithSubcommand" ->
           {Word("a"), Word("1"), Word("b"), t_dd}
      [] r = "GlobalTop" ->
           {Word("m"), Word("l"), Long("r"), Word("v")}

\* The subcommand enums from_args is called on directly: their static
\* variants in declared order and the commands of their dynamic handler.
SubCommandEnum == [commands |-> << "OneSubCommand" >>, dynamic |-> << >>]

MySubCommandEnum ==
    [commands |-> << "DynSubCommandOne", "SubCommandTwo" >>,
     dynamic |-> << t_three, t_four, t_five >>]

\* An enum whose dynamic handler also knows the name of a static variant.
OverlapEnum == [commands |-> << "DynSubCommandOne" >>, dynamic |-> << t_one, t_three >>]

Enums ==
    [SubCommandEnum |-> SubCommandEnum, MySubCommandEnum |-> MySubCommandEnum,
     OverlapEnum |-> OverlapEnum]

EnumRoots == {"SubCommandEnum", "MySubCommandEnum", "OverlapEnum"}

CommandNames(r) ==
    CASE r = "SubCommandEnum" -> {<< >>, << t_fooey_word >>, << t_one >>}
      [] r = "MySubCommandEnum" ->
           {<< >>, << t_fooey_word >>, << t_one >>, << t_three >>, << t_cmdname, t_four >>}
      [] r = "OverlapEnum" -> {<< >>, << t_one >>, << t_three >>, << t_two >>}

EnumAlphabet(r) ==
    CASE r = "SubCommandEnum" -> {Word("5"), Word("x")}
      [] r = "MySubCommandEnum" -> {Long("x"), Word("2")}
      [] r = "OverlapEnum" -> {Long("x"), Word("2")}

RECURSIVE SeqsUpTo(_, _)
SeqsUpTo(S, n) ==
    IF n = 0 THEN {<< >>}
    ELSE LET shorter == SeqsUpTo(S, n - 1)
         IN  shorter \cup {Append(s, x) : s \in {q \in shorter : Len(q) = n - 1}, x \in S}

(***************************************************************************)
(* Errors (argp/src/error.rs) and the outcomes of a parse.                 *)
(***************************************************************************)
\* F applied to the value of e (e is evaluated once).
Then(e, F(_)) == CHOOSE out \in {F(r) : r \in {e}} : TRUE

NoError == [err |-> "none"]

DuplicateOption(arg) == [err |-> "DuplicateOption", arg |-> arg]

MissingArgValue(arg) == [err |-> "MissingArgValue", arg |-> arg]

UnknownArgument(arg) == [err |-> "UnknownArgument", arg |-> arg]

OptionsAfterHelpError == [err |-> "OptionsAfterHelp"]

ParseArgument(arg, value, msg) ==
    [err |-> "ParseArgument", arg |-> arg, value |-> value, msg |-> msg]

Other(msg) == [err |-> "Other", msg |-> msg]

MissingRequirementsError(req) == [err |-> "MissingRequirements", req |-> req]

Running == [kind |-> "Running"]

EarlyExitErr(e) == [kind |-> "Err", error |-> e]

EarlyExitHelp(cmd_name, ty, global_options) ==
    [kind |-> "Help", cmd_name |-> cmd_name, ty |-> ty, global_options |-> global_options]

Parsed(value) == [kind |-> "Ok", value |-> value]

\* The _from_args of a subcommand enum was called and has not delegated yet.
Dispatching == [kind |-> "Dispatching"]

\* The thread panicked: from_args does not return.
Panicked(msg) == [kind |-> "Panic", msg |-> msg]

(***************************************************************************)
(* Conversion of a raw value (FromArgValue for the FromStr types).         *)
(***************************************************************************)
IsDigit(c) == \E i \in 1..10 : Digits[i] = c

DigitVal(c) == (CHOOSE i \in 1..10 : Digits[i] = c) - 1

RECURSIVE DigitsVal(_)
DigitsVal(s) ==
    IF s = << >> THEN 0
    ELSE 10 * DigitsVal(SubSeq(s, 1, Len(s) - 1)) + DigitVal(s[Len(s)])

\* The largest value of an unsigned type that the tokens of the model can
\* come near (the wider types never overflow on them).
ParseMax(ty) == IF ty = "u8" THEN 255 ELSE 2147483647

\* str::parse of an unsigned integer: an optional `+`, then decimal digits.
ParseUnsigned(ty, value) ==
    LET digits == IF Len(value) > 1 /\ value[1] = "+" THEN Tail(value) ELSE value
    IN  IF value = << >>
        THEN [ok |-> FALSE, msg |-> "cannot parse integer from empty string"]
        ELSE IF \E i \in 1..Len(digits) : ~IsDigit(digits[i])
        THEN [ok |-> FALSE, msg |-> "invalid digit found in string"]
        ELSE IF Len(digits) > 9 \/ DigitsVal(digits) > ParseMax(ty)
        THEN [ok |-> FALSE, msg |-> "number too large to fit in target type"]
        ELSE [ok |-> TRUE, val |-> DigitsVal(digits)]

from_arg_value(ty, value) ==
    CASE ty = "String" -> [ok |-> TRUE, val |-> value]
      [] ty \in {"usize", "u32", "u8"} -> ParseUnsigned(ty, value)

\* The conversion of a raw token to a field of type ty: the raw types take
\* the token as it is, the textual types need a token that is valid text.
FromOsArgValue(ty, value) ==
    IF ty \in {"OsString", "PathBuf"} THEN [ok |-> TRUE, val |-> value]
    ELSE IF \E i \in 1..Len(value) : value[i] = InvalidByte
    THEN [ok |-> FALSE, msg |-> "not a valid UTF-8 string"]
    ELSE from_arg_value(ty, value)

(***************************************************************************)
(* Flag slots (parser.rs, trait Flag).                                     *)
(***************************************************************************)
IntMax(ty) == IF ty = "u8" THEN 255 ELSE 65535

FlagDefault(ty) ==
    CASE ty = "bool" -> FALSE
      [] ty = "Option<bool>" -> << >>
      [] OTHER -> 0

set_flag_Wrapping(ty, v) ==
    CASE ty = "bool" -> TRUE
      [] ty = "Option<bool>" -> << TRUE >>
      [] OTHER -> (v + 1) % (IntMax(ty) + 1)

set_flag(ty, v) ==
    CASE ty = "bool" -> TRUE
      [] ty = "Option<bool>" -> << TRUE >>
      [] OTHER -> IF v < IntMax(ty) THEN v + 1 ELSE v

(***************************************************************************)
(* The local storage of one _from_args invocation: a frame of the call     *)
(* stack.  The frame below a frame is its `parent`.                        *)
(***************************************************************************)
SlotDefault(d) == IF d.kind = "Flag" THEN FlagDefault(d.ty) ELSE << >>

NewFrame(ty, cmd_name, remaining_args) ==
    [ty |-> ty,
     cmd_name |-> cmd_name,
     remaining_args |-> remaining_args,
     help_requested |-> FALSE,
     help_cmd |-> FALSE,
     positional_index |-> 0,
     options_ended |-> FALSE,
     escaped |-> FALSE,
     slots |-> [i \in 1..Len(Schemas[ty].slots) |-> SlotDefault(Schemas[ty].slots[i])],
     positionals |-> [i \in 1..Len(Schemas[ty].positionals) |-> << >>],
     subcommand |-> << >>]

(***************************************************************************)
(* Value slots: ParseValueSlotTy<Option<T>, T> and <Vec<T>, T>.            *)
(***************************************************************************)
\* Faulty variant: a second value replaces the stored one.
ValueFillSlot_Overwrite(slot, d, arg, value) ==
    LET parsed == FromOsArgValue(d.ty, value)
    IN  IF d.opt = "Repeating"
        THEN IF parsed.ok
             THEN [slot |-> Append(slot, parsed.val), error |-> NoError]
             ELSE [slot |-> slot, error |-> ParseArgument(arg, value, parsed.msg)]
        ELSE IF parsed.ok
             THEN [slot |-> << parsed.val >>, error |-> NoError]
             ELSE [slot |-> slot, error |-> ParseArgument(arg, value, parsed.msg)]

\* Faulty variant: a repeating slot puts the newest value first.
ValueFillSlot_Prepend(slot, d, arg, value) ==
    LET parsed == FromOsArgValue(d.ty, value)
    IN  IF d.opt = "Repeating"
        THEN IF parsed.ok
             THEN [slot |-> << parsed.val >> \o slot, error |-> NoError]
             ELSE [slot |-> slot, error |-> ParseArgument(arg, value, parsed.msg)]
        ELSE IF slot # << >>
             THEN [slot |-> slot, error |-> DuplicateOption(arg)]
             ELSE IF parsed.ok
             THEN [slot |-> << parsed.val >>, error |-> NoError]
             ELSE [slot |-> slot, error |-> ParseArgument(arg, value, parsed.msg)]

\* Faulty variant: the value is converted before the slot is looked at.
ValueFillSlot_ConvertsFirst(slot, d, arg, value) ==
    LET parsed == FromOsArgValue(d.ty, value)
    IN  IF ~parsed.ok
        THEN [slot |-> slot, error |-> ParseArgument(arg, value, parsed.msg)]
        ELSE IF d.opt = "Repeating"
        THEN [slot |-> Append(slot, parsed.val), error |-> NoError]
        ELSE IF slot # << >>
        THEN [slot |-> slot, error |-> DuplicateOption(arg)]
        ELSE [slot |-> << parsed.val >>, error |-> NoError]

ValueFillSlot(slot, d, arg, value) ==
    LET parsed == FromOsArgValue(d.ty, value)
    IN  IF d.opt = "Repeating"
        THEN IF parsed.ok
             THEN [slot |-> Append(slot, parsed.val), error |-> NoError]
             ELSE [slot |-> slot, error |-> ParseArgument(arg, value, parsed.msg)]
        ELSE IF slot # << >>
             THEN [slot |-> slot, error |-> DuplicateOption(arg)]
             ELSE IF parsed.ok
             THEN [slot |-> << parsed.val >>, error |-> NoError]
             ELSE [slot |-> slot, error |-> ParseArgument(arg, value, parsed.msg)]

(***************************************************************************)
(* ParseStructOptions: fill_slot, try_parse_global, parse.                 *)
(* Each returns the stack, the remaining arguments and the error (if any). *)
(***************************************************************************)
\* Faulty variant: the value is read but left among the remaining arguments.
FillSlot_KeepsToken(stk, lvl, pos, arg, remaining_args) ==
    LET d == Schemas[stk[lvl].ty].slots[pos]
        cur == stk[lvl].slots[pos]
    IN  IF d.kind = "Flag"
        THEN [stack |-> [stk EXCEPT ![lvl].slots[pos] = set_flag(d.ty, cur)],
              remaining_args |-> remaining_args, error |-> NoError]
        ELSE IF remaining_args = << >>
        THEN [stack |-> stk, remaining_args |-> remaining_args,
              error |-> MissingArgValue(arg)]
        ELSE LET r == ValueFillSlot(cur, d, arg, Head(remaining_args))
             IN  [stack |-> [stk EXCEPT ![lvl].slots[pos] = r.slot],
                  remaining_args |-> remaining_args, error |-> r.error]

FillSlot(stk, lvl, pos, arg, remaining_args) ==
    LET d == Schemas[stk[lvl].ty].slots[pos]
        cur == stk[lvl].slots[pos]
    IN  IF d.kind = "Flag"
        THEN [stack |-> [stk EXCEPT ![lvl].slots[pos] = set_flag(d.ty, cur)],
              remaining_args |-> remaining_args, error |-> NoError]
        ELSE IF remaining_args = << >>
        THEN [stack |-> stk, remaining_args |-> remaining_args,
              error |-> MissingArgValue(arg)]
        ELSE LET r == ValueFillSlot(cur, d, arg, Head(remaining_args))
             IN  [stack |-> [stk EXCEPT ![lvl].slots[pos] = r.slot],
                  remaining_args |-> Tail(remaining_args), error |-> r.error]

\* Position in arg_to_slot of the first entry named arg, or 0.
FindArg(sch, arg) ==
    LET hits == {i \in 1..Len(sch.arg_to_slot) : sch.arg_to_slot[i][1] = arg}
    IN  IF hits = {} THEN 0 ELSE CHOOSE i \in hits : \A j \in hits : i <= j

\* Faulty variant: the global marks of the slots are ignored.
FindGlobalArg_AnySlot(sch, arg) ==
    LET hits == {i \in 1..Len(sch.arg_to_slot) : sch.arg_to_slot[i][1] = arg}
    IN  IF hits = {} THEN 0 ELSE CHOOSE i \in hits : \A j \in hits : i <= j

\* The same, among the entries whose slot is global.
FindGlobalArg(sch, arg) ==
    LET hits == {i \in 1..Len(sch.arg_to_slot) :
                    /\ sch.arg_to_slot[i][1] = arg
                    /\ sch.slots_global[sch.arg_to_slot[i][2]]}
    IN  IF hits = {} THEN 0 ELSE CHOOSE i \in hits : \A j \in hits : i <= j

\* Faulty variant: the parent is never asked.
TryParseGlobal_NoParent(stk, lvl, arg, remaining_args) ==
    LET sch == Schemas[stk[lvl].ty]
        i == FindGlobalArg(sch, arg)
    IN  IF i # 0
        THEN [found |-> TRUE,
              res |-> FillSlot(stk, lvl, sch.arg_to_slot[i][2], arg, remaining_args)]
        ELSE [found |-> FALSE]

\* Faulty variant: an ancestor that declares the name at all ends the search.
RECURSIVE TryParseGlobal_StopsAtDeclaring(_, _, _, _)
TryParseGlobal_StopsAtDeclaring(stk, lvl, arg, remaining_args) ==
    LET sch == Schemas[stk[lvl].ty]
        i == FindGlobalArg(sch, arg)
    IN  IF i # 0
        THEN [found |-> TRUE,
              res |-> FillSlot(stk, lvl, sch.arg_to_slot[i][2], arg, remaining_args)]
        ELSE IF lvl > 1 /\ FindArg(sch, arg) = 0
        THEN TryParseGlobal_StopsAtDeclaring(stk, lvl - 1, arg, remaining_args)
        ELSE [found |-> FALSE]

\* Faulty variant: a descendant fills a copy of the ancestor's slot, which is
\* lost when the fill returns.
RECURSIVE TryParseGlobal_WritesCopy(_, _, _, _)
TryParseGlobal_WritesCopy(stk, lvl, arg, remaining_args) ==
    LET sch == Schemas[stk[lvl].ty]
        i == FindGlobalArg(sch, arg)
    IN  IF i # 0
        THEN [found |-> TRUE,
              res |-> IF lvl < Len(stk)
                      THEN [FillSlot(stk, lvl, sch.arg_to_slot[i][2], arg, remaining_args)
                               EXCEPT !.stack = stk]
                      ELSE FillSlot(stk, lvl, sch.arg_to_slot[i][2], arg, remaining_args)]
        ELSE IF lvl > 1
        THEN TryParseGlobal_WritesCopy(stk, lvl - 1, arg, remaining_args)
        ELSE [found |-> FALSE]

RECURSIVE TryParseGlobal(_, _, _, _)
TryParseGlobal(stk, lvl, arg, remaining_args) ==
    LET sch == Schemas[stk[lvl].ty]
        i == FindGlobalArg(sch, arg)
    IN  IF i # 0
        THEN [found |-> TRUE,
              res |-> FillSlot(stk, lvl, sch.arg_to_slot[i][2], arg, remaining_args)]
        ELSE IF lvl > 1
        THEN TryParseGlobal(stk, lvl - 1, arg, remaining_args)
        ELSE [found |-> FALSE]

\* Faulty variant: the parent chain is searched before the local table.
ParseOption_ParentFirst(stk, lvl, arg, remaining_args) ==
    LET sch == Schemas[stk[lvl].ty]
        i == FindArg(sch, arg)
        up == IF lvl > 1 THEN TryParseGlobal(stk, lvl - 1, arg, remaining_args)
              ELSE [found |-> FALSE]
    IN  IF up.found THEN up.res
        ELSE IF i # 0
        THEN FillSlot(stk, lvl, sch.arg_to_slot[i][2], arg, remaining_args)
        ELSE [stack |-> stk, remaining_args |-> remaining_args,
              error |-> UnknownArgument(arg)]

ParseOption(stk, lvl, arg, remaining_args) ==
    LET sch == Schemas[stk[lvl].ty]
        i == FindArg(sch, arg)
    IN  IF i # 0
        THEN FillSlot(stk, lvl, sch.arg_to_slot[i][2], arg, remaining_args)
        ELSE LET g == TryParseGlobal(stk, lvl, arg, remaining_args)
             IN  IF g.found THEN g.res
                 ELSE [stack |-> stk, remaining_args |-> remaining_args,
                       error |-> UnknownArgument(arg)]

\* Faulty variant: every option of the bundle is given the remaining arguments.
RECURSIVE ParseCombined_AllTakeValue(_, _, _, _)
ParseCombined_AllTakeValue(stk, lvl, chars, remaining_args) ==
    IF chars = << >>
    THEN [stack |-> stk, remaining_args |-> remaining_args, error |-> NoError]
    ELSE Then(ParseOption(stk, lvl, Short(Head(chars)), remaining_args),
              LAMBDA r :
                  IF r.error # NoError \/ Tail(chars) = << >> THEN r
                  ELSE ParseCombined_AllTakeValue(r.stack, lvl, Tail(chars),
                                                  r.remaining_args))

\* The loop over the characters of a bundle of short options: only the last
\* option is given the remaining arguments.
RECURSIVE ParseCombined(_, _, _, _)
ParseCombined(stk, lvl, chars, remaining_args) ==
    IF chars = << >>
    THEN [stack |-> stk, remaining_args |-> remaining_args, error |-> NoError]
    ELSE IF Tail(chars) # << >>
    THEN Then(ParseOption(stk, lvl, Short(Head(chars)), << >>),
              LAMBDA r :
                  IF r.error # NoError
                  THEN [stack |-> stk, remaining_args |-> remaining_args,
                        error |-> r.error]
                  ELSE ParseCombined(r.stack, lvl, Tail(chars), remaining_args))
    ELSE ParseOption(stk, lvl, Short(Head(chars)), remaining_args)

(***************************************************************************)
(* ParseStructPositionals::parse.                                          *)
(***************************************************************************)
last_is_repeating(sch) ==
    /\ sch.positionals # << >>
    /\ sch.positionals[Len(sch.positionals)].opt = "Repeating"

last_is_greedy(sch) == sch.positionals # << >> /\ sch.greedy

\* Faulty variant: a greedy positional does not end the option scanning.
ParsePositional_NotGreedy(frame, arg) ==
    LET sch == Schemas[frame.ty]
        n == Len(sch.positionals)
        index == frame.positional_index
    IN  IF index < n
        THEN LET d == sch.positionals[index + 1]
                 r == ValueFillSlot(frame.positionals[index + 1], d, d.name, arg)
             IN  IF r.error # NoError
                 THEN [frame |-> frame, ended |-> FALSE, error |-> r.error]
                 ELSE IF last_is_repeating(sch) /\ index = n - 1
                 THEN [frame |-> [frame EXCEPT !.positionals[index + 1] = r.slot],
                       ended |-> FALSE, error |-> NoError]
                 ELSE [frame |-> [frame EXCEPT !.positionals[index + 1] = r.slot,
                                               !.positional_index = index + 1],
                       ended |-> FALSE, error |-> NoError]
        ELSE [frame |-> frame, ended |-> FALSE, error |-> UnknownArgument(arg)]

\* Faulty variant: a bare token that no positional is left for is dropped.
ParsePositional_DropsExtra(frame, arg) ==
    LET sch == Schemas[frame.ty]
        n == Len(sch.positionals)
        index == frame.positional_index
    IN  IF index < n
        THEN LET d == sch.positionals[index + 1]
                 r == ValueFillSlot(frame.positionals[index + 1], d, d.name, arg)
             IN  IF r.error # NoError
                 THEN [frame |-> frame, ended |-> FALSE, error |-> r.error]
                 ELSE IF last_is_repeating(sch) /\ index = n - 1
                 THEN [frame |-> [frame EXCEPT !.positionals[index + 1] = r.slot],
                       ended |-> last_is_greedy(sch), error |-> NoError]
                 ELSE [frame |-> [frame EXCEPT !.positionals[index + 1] = r.slot,
                                               !.positional_index = index + 1],
                       ended |-> FALSE, error |-> NoError]
        ELSE [frame |-> frame, ended |-> FALSE, error |-> NoError]

\* Faulty variant: the cursor stays where it is after a fill.
ParsePositional_Stays(frame, arg) ==
    LET sch == Schemas[frame.ty]
        n == Len(sch.positionals)
        index == frame.positional_index
    IN  IF index < n
        THEN LET d == sch.positionals[index + 1]
                 r == ValueFillSlot(frame.positionals[index + 1], d, d.name, arg)
             IN  IF r.error # NoError
                 THEN [frame |-> frame, ended |-> FALSE, error |-> r.error]
                 ELSE [frame |-> [frame EXCEPT !.positionals[index + 1] = r.slot],
                       ended |-> last_is_repeating(sch) /\ index = n - 1
                                    /\ last_is_greedy(sch),
                       error |-> NoError]
        ELSE [frame |-> frame, ended |-> FALSE, error |-> UnknownArgument(arg)]

ParsePositional(frame, arg) ==
    LET sch == Schemas[frame.ty]
        n == Len(sch.positionals)
        index == frame.positional_index
    IN  IF index < n
        THEN LET d == sch.positionals[index + 1]
                 r == ValueFillSlot(frame.positionals[index + 1], d, d.name, arg)
             IN  IF r.error # NoError
                 THEN [frame |-> frame, ended |-> FALSE, error |-> r.error]
                 ELSE IF last_is_repeating(sch) /\ index = n - 1
                 THEN [frame |-> [frame EXCEPT !.positionals[index + 1] = r.slot],
                       ended |-> last_is_greedy(sch), error |-> NoError]
                 ELSE [frame |-> [frame EXCEPT !.positionals[index + 1] = r.slot,
                                               !.positional_index = index + 1],
                       ended |-> FALSE, error |-> NoError]
        ELSE [frame |-> frame, ended |-> FALSE, error |-> UnknownArgument(arg)]

(***************************************************************************)
(* ParseStructSubCommand::parse and the _from_args of a subcommand enum.   *)
(***************************************************************************)
\* Position in the commands of the first one named arg, or 0.
FindCommand(commands, arg) ==
    LET hits == {i \in 1..Len(commands) : Schemas[commands[i]].name = arg}
    IN  IF hits = {} THEN 0 ELSE CHOOSE i \in hits : \A j \in hits : i <= j

\* SubCommands::COMMANDS chained with SubCommands::dynamic_commands().
SubCommandNames(sub) ==
    [k \in 1..Len(sub.commands) |-> Schemas[sub.commands[k]].name] \o sub.dynamic

\* Position in the chained names of the first one equal to the bare token
\* at this frame, or 0.
MatchSubCommand(frame, arg) ==
    LET sch == Schemas[frame.ty]
    IN  IF sch.subcommand = << >> THEN 0
        ELSE LET names == SubCommandNames(sch.subcommand[1])
                 hits == {i \in 1..Len(names) : names[i] = arg}
             IN  IF hits = {} THEN 0 ELSE CHOOSE i \in hits : \A j \in hits : i <= j

\* tests/lib.rs DynamicSubCommandImpl::try_from_args: whether the handler
\* claims the command, and the result when it does.
try_from_args(commands, command_name, a) ==
    IF command_name = << >>
    THEN [claimed |-> TRUE, error |-> Other("No command")]
    ELSE IF \A i \in 1..Len(commands) : commands[i] # command_name[Len(command_name)]
    THEN [claimed |-> FALSE]
    ELSE IF Len(a) > 1
    THEN [claimed |-> TRUE, error |-> Other("Too many arguments")]
    ELSE IF Len(a) = 1
    THEN [claimed |-> TRUE, error |-> NoError,
          value |-> [ty |-> "DynamicSubCommandImpl",
                     got |-> << command_name[Len(command_name)], a[1] >>]]
    ELSE [claimed |-> TRUE, error |-> Other("Not enough arguments")]

\* Faulty variant: the dynamic handler is asked before the static variants.
EnumFromArgs_DynamicFirst(sub, command_name, a) ==
    IF command_name = << >> THEN [kind |-> "NoName"]
    ELSE LET i == FindCommand(sub.commands, command_name[Len(command_name)])
             dyn == try_from_args(sub.dynamic, command_name, a)
         IN  IF sub.dynamic # << >> /\ dyn.claimed
             THEN [kind |-> "Dynamic", result |-> dyn]
             ELSE IF i # 0 THEN [kind |-> "Static", ty |-> sub.commands[i]]
             ELSE [kind |-> "NoMatch"]

\* Enum _from_args up to the call it delegates to: the static variant whose
\* COMMAND.name is the last element of the command name, else the answer of
\* the dynamic handler, else no match.
EnumFromArgs(sub, command_name, a) ==
    IF command_name = << >> THEN [kind |-> "NoName"]
    ELSE LET i == FindCommand(sub.commands, command_name[Len(command_name)])
             dyn == try_from_args(sub.dynamic, command_name, a)
         IN  IF i # 0 THEN [kind |-> "Static", ty |-> sub.commands[i]]
             ELSE IF sub.dynamic # << >> /\ dyn.claimed
             THEN [kind |-> "Dynamic", result |-> dyn]
             ELSE [kind |-> "NoMatch"]

\* Faulty variant: the synthetic `help` is not given to the child.
prepend_help_Dropped(help, remaining_args) == remaining_args

\* Faulty variant: the synthetic `help` is put after the remaining arguments.
prepend_help_Appended(help, remaining_args) ==
    IF help THEN remaining_args \o << t_help >> ELSE remaining_args

\* Faulty variant: the help token is put in front twice.
prepend_help_Twice(help, remaining_args) ==
    IF help THEN << t_help, t_help >> \o remaining_args ELSE remaining_args

prepend_help(help, remaining_args) ==
    IF help THEN << t_help >> \o remaining_args ELSE remaining_args

(***************************************************************************)
(* After the loop: help, the requirement check, the struct literal.        *)
(***************************************************************************)
\* Faulty variant: every option of the ancestors is inherited, global or not.
RECURSIVE global_options_AllOptions(_, _)
global_options_AllOptions(stk, lvl) ==
    IF lvl = 0 THEN << >>
    ELSE LET sch == Schemas[stk[lvl].ty]
         IN  global_options_AllOptions(stk, lvl - 1)
                 \o [k \in 1..Len(sch.slots) |-> sch.slots[k].long]

RECURSIVE global_options(_, _)
global_options(stk, lvl) ==
    IF lvl = 0 THEN << >>
    ELSE LET sch == Schemas[stk[lvl].ty]
             own == SelectSeq([i \in 1..Len(sch.slots) |-> i],
                              LAMBDA i : sch.slots_global[i])
         IN  global_options(stk, lvl - 1) \o [k \in 1..Len(own) |-> sch.slots[own[k]].long]

\* Faulty variant: only the first unmet requirement is reported.
Missing_FirstOnly(frame) ==
    LET sch == Schemas[frame.ty]
        pos == SelectSeq([i \in 1..Len(sch.positionals) |-> i],
                         LAMBDA i : sch.positionals[i].opt = "None"
                                    /\ frame.positionals[i] = << >>)
        opts == SelectSeq([i \in 1..Len(sch.slots) |-> i],
                          LAMBDA i : sch.slots[i].kind = "Value"
                                     /\ sch.slots[i].opt = "None"
                                     /\ frame.slots[i] = << >>)
        cmds == IF /\ sch.subcommand # << >>
                   /\ sch.subcommand[1].opt = "None"
                   /\ frame.subcommand = << >>
                THEN << SubCommandNames(sch.subcommand[1]) >>
                ELSE << >>
    IN  IF pos # << >>
        THEN [options |-> << >>, subcommands |-> << >>,
              positional_args |-> << sch.positionals[pos[1]].name >>]
        ELSE IF opts # << >>
        THEN [options |-> << sch.slots[opts[1]].long >>, subcommands |-> << >>,
              positional_args |-> << >>]
        ELSE [options |-> << >>, subcommands |-> cmds, positional_args |-> << >>]

Missing(frame) ==
    LET sch == Schemas[frame.ty]
        pos == SelectSeq([i \in 1..Len(sch.positionals) |-> i],
                         LAMBDA i : sch.positionals[i].opt = "None"
                                    /\ frame.positionals[i] = << >>)
        opts == SelectSeq([i \in 1..Len(sch.slots) |-> i],
                          LAMBDA i : sch.slots[i].kind = "Value"
                                     /\ sch.slots[i].opt = "None"
                                     /\ frame.slots[i] = << >>)
        cmds == IF /\ sch.subcommand # << >>
                   /\ sch.subcommand[1].opt = "None"
                   /\ frame.subcommand = << >>
                THEN << SubCommandNames(sch.subcommand[1]) >>
                ELSE << >>
    IN  [options |-> [k \in 1..Len(opts) |-> sch.slots[opts[k]].long],
         subcommands |-> cmds,
         positional_args |-> [k \in 1..Len(pos) |-> sch.positionals[pos[k]].name]]

NoneMissing == [options |-> << >>, subcommands |-> << >>, positional_args |-> << >>]

\* Faulty variant: a defaulted field always takes its declared default.
Unwrap_AlwaysDefault(d, slot) ==
    CASE d.opt = "None" -> slot[1]
      [] d.opt = "Defaulted" -> d.default
      [] OTHER -> slot

Unwrap(d, slot) ==
    CASE d.opt = "None" -> slot[1]
      [] d.opt = "Defaulted" -> IF slot = << >> THEN d.default ELSE slot[1]
      [] OTHER -> slot

StructValue(frame) ==
    LET sch == Schemas[frame.ty]
    IN  [ty |-> frame.ty,
         options |-> [i \in 1..Len(sch.slots) |->
                        IF sch.slots[i].kind = "Flag" THEN frame.slots[i]
                        ELSE Unwrap(sch.slots[i], frame.slots[i])],
         positionals |-> [i \in 1..Len(sch.positionals) |->
                            Unwrap(sch.positionals[i], frame.positionals[i])],
         subcommand |-> frame.subcommand]

(***************************************************************************)
(* parse_struct_args: one iteration of the 'parse_args loop per step.      *)
(* The operators below take the call stack and return the stack and the    *)
(* outcome after the step.                                                 *)
(***************************************************************************)
Continue(stk) == [stack |-> stk, outcome |-> Running]

Exit(o) == [stack |-> << >>, outcome |-> o]

Top(stk) == stk[Len(stk)]

\* next_arg_os.to_str().unwrap_or("")
to_str(t) == IF \A i \in 1..Len(t) : t[i] # InvalidByte THEN t ELSE << >>

starts_with_dash(t) == Len(t) > 0 /\ t[1] = "-"

IsHelpArg(t) == t = t_help_long \/ t = t_h \/ t = t_help

\* next_arg.len() > 2 && &next_arg[1..2]: the slice of the second byte
\* panics when byte 2 is not a character boundary, that is when the
\* character after the dash is longer than one byte.
SliceFaults(t) == ByteLength(t) > 2 /\ ByteLen(t[2]) > 1

\* next_arg.len() > 2 && &next_arg[1..2] != "-"
IsCombined(t) == ByteLength(t) > 2 /\ t[2] # "-"

\* Faulty variant: the help keywords are recognised also after the options ended.
Classify_HelpAfterEnd(stk) ==
    LET f == Top(stk)
        next_arg_os == Head(f.remaining_args)
        next_arg == to_str(next_arg_os)
    IN  IF f.escaped \/ f.remaining_args = << >> THEN "Finish"
        ELSE IF IsHelpArg(next_arg) THEN "HelpToken"
        ELSE IF starts_with_dash(next_arg) /\ ~f.options_ended
        THEN IF next_arg_os = t_dd THEN "EndOfOptions"
             ELSE IF f.help_cmd THEN "OptionsAfterHelp"
             ELSE IF SliceFaults(next_arg) THEN "SliceFault"
             ELSE IF IsCombined(next_arg) THEN "CombinedShortOptions"
             ELSE "SingleOption"
        ELSE IF MatchSubCommand(f, next_arg) # 0 THEN "SubCommand"
        ELSE "Positional"

\* Faulty variant: a bare token is offered to the positionals first and is
\* tested against the subcommand names only when no positional takes it.
Classify_PositionalFirst(stk) ==
    LET f == Top(stk)
        next_arg_os == Head(f.remaining_args)
        next_arg == to_str(next_arg_os)
    IN  IF f.escaped \/ f.remaining_args = << >> THEN "Finish"
        ELSE IF IsHelpArg(next_arg) /\ ~f.options_ended THEN "HelpToken"
        ELSE IF starts_with_dash(next_arg) /\ ~f.options_ended
        THEN IF next_arg_os = t_dd THEN "EndOfOptions"
             ELSE IF f.help_cmd THEN "OptionsAfterHelp"
             ELSE IF SliceFaults(next_arg) THEN "SliceFault"
             ELSE IF IsCombined(next_arg) THEN "CombinedShortOptions"
             ELSE "SingleOption"
        ELSE IF f.positional_index < Len(Schemas[f.ty].positionals) THEN "Positional"
        ELSE IF MatchSubCommand(f, next_arg) # 0 THEN "SubCommand"
        ELSE "Positional"

\* Which branch of the loop body (or the code after the loop) runs next.
Classify(stk) ==
    LET f == Top(stk)
        next_arg_os == Head(f.remaining_args)
        next_arg == to_str(next_arg_os)
    IN  IF f.escaped \/ f.remaining_args = << >> THEN "Finish"
        ELSE IF IsHelpArg(next_arg) /\ ~f.options_ended THEN "HelpToken"
        ELSE IF starts_with_dash(next_arg) /\ ~f.options_ended
        THEN IF next_arg_os = t_dd THEN "EndOfOptions"
             ELSE IF f.help_cmd THEN "OptionsAfterHelp"
             ELSE IF SliceFaults(next_arg) THEN "SliceFault"
             ELSE IF IsCombined(next_arg) THEN "CombinedShortOptions"
             ELSE "SingleOption"
        ELSE IF MatchSubCommand(f, next_arg) # 0 THEN "SubCommand"
        ELSE "Positional"

\* parser.rs 41-45
DoHelpToken(stk) ==
    LET f == Top(stk)
        next_arg_os == Head(f.remaining_args)
    IN  Continue([stk EXCEPT ![Len(stk)] =
                    [f EXCEPT !.remaining_args = Tail(f.remaining_args),
                              !.help_requested = TRUE,
                              !.help_cmd = (next_arg_os = t_help)]])

\* parser.rs 48-51
DoEndOfOptions(stk) ==
    LET f == Top(stk)
    IN  Continue([stk EXCEPT ![Len(stk)] =
                    [f EXCEPT !.remaining_args = Tail(f.remaining_args),
                              !.options_ended = TRUE]])

\* parser.rs 53-55
DoOptionsAfterHelp(stk) == Exit(EarlyExitErr(OptionsAfterHelpError))

\* parser.rs 59 on a token whose second byte is inside a character
DoSliceFault(stk) == Exit(Panicked("byte index 2 is not a char boundary"))

\* The stack after an option step that returned r.
AfterOption(r) ==
    IF r.error # NoError THEN Exit(EarlyExitErr(r.error))
    ELSE Continue([r.stack EXCEPT ![Len(r.stack)].remaining_args = r.remaining_args])

\* parser.rs 59-69
DoCombinedShortOptions(stk) ==
    LET f == Top(stk)
        next_arg == to_str(Head(f.remaining_args))
    IN  AfterOption(ParseCombined(stk, Len(stk), Tail(next_arg), Tail(f.remaining_args)))

\* parser.rs 70-72
DoSingleOption(stk) ==
    LET f == Top(stk)
        next_arg == to_str(Head(f.remaining_args))
    IN  AfterOption(ParseOption(stk, Len(stk), next_arg, Tail(f.remaining_args)))

\* A subcommand returned its value to the level on top of stk: the loop of
\* that level breaks with help unset (parser.rs 85-87).
Returned(stk, value) ==
    [stk EXCEPT ![Len(stk)] = [@ EXCEPT !.subcommand = << value >>,
                                        !.help_requested = FALSE,
                                        !.escaped = TRUE]]

\* parser.rs 77-89 up to the call of the child's _from_args; a command of the
\* dynamic handler runs to its end within the step.
DoSubCommand(stk) ==
    LET f == Top(stk)
        next_arg == to_str(Head(f.remaining_args))
        remaining_args == Tail(f.remaining_args)
        sub == Schemas[f.ty].subcommand[1]
        matched == MatchSubCommand(f, next_arg)
        command == Append(f.cmd_name, SubCommandNames(sub)[matched])
        child_args == prepend_help(f.help_requested, remaining_args)
        e == IF sub.enum THEN EnumFromArgs(sub, command, child_args)
             ELSE [kind |-> "Static", ty |-> sub.commands[matched]]
        here == [stk EXCEPT ![Len(stk)].remaining_args = remaining_args]
    IN  CASE e.kind = "Static" ->
               Continue(Append(here, NewFrame(e.ty, command, child_args)))
          [] e.kind = "Dynamic" ->
               IF e.result.error # NoError THEN Exit(EarlyExitErr(e.result.error))
               ELSE Continue(Returned(here, e.result.value))
          [] e.kind = "NoName" ->
               Exit(EarlyExitErr(Other("no subcommand name")))
          [] OTHER ->
               Exit(EarlyExitErr(Other("no subcommand matched")))

\* parser.rs 91
DoPositional(stk) ==
    LET f == Top(stk)
        next_arg_os == Head(f.remaining_args)
        r == ParsePositional([f EXCEPT !.remaining_args = Tail(f.remaining_args)],
                             next_arg_os)
    IN  IF r.error # NoError THEN Exit(EarlyExitErr(r.error))
        ELSE Continue([stk EXCEPT ![Len(stk)] =
                         [r.frame EXCEPT !.options_ended = f.options_ended \/ r.ended]])

\* Faulty variant: the loop of the parent goes on after its subcommand
\* has returned.
DoFinish_ParentContinues(stk) ==
    LET f == Top(stk)
        lvl == Len(stk)
    IN  IF f.help_requested
        THEN Exit(EarlyExitHelp(f.cmd_name, f.ty, global_options(stk, lvl - 1)))
        ELSE IF Missing(f) # NoneMissing
        THEN Exit(EarlyExitErr(MissingRequirementsError(Missing(f))))
        ELSE IF lvl = 1
        THEN Exit(Parsed(StructValue(f)))
        ELSE Continue([SubSeq(stk, 1, lvl - 1) EXCEPT ![lvl - 1] =
                         [@ EXCEPT !.subcommand = << StructValue(f) >>,
                                   !.help_requested = FALSE]])

\* Faulty variant: the error of a level also lists the options its parent
\* misses.
DoFinish_ReportsParent(stk) ==
    LET f == Top(stk)
        lvl == Len(stk)
        own == Missing(f)
        all == IF lvl = 1 THEN own
               ELSE [own EXCEPT !.options = Missing(stk[lvl - 1]).options \o @]
    IN  IF f.help_requested
        THEN Exit(EarlyExitHelp(f.cmd_name, f.ty, global_options(stk, lvl - 1)))
        ELSE IF own # NoneMissing
        THEN Exit(EarlyExitErr(MissingRequirementsError(all)))
        ELSE IF lvl = 1
        THEN Exit(Parsed(StructValue(f)))
        ELSE Continue([SubSeq(stk, 1, lvl - 1) EXCEPT ![lvl - 1] =
                         [@ EXCEPT !.subcommand = << StructValue(f) >>,
                                   !.help_requested = FALSE,
                                   !.escaped = TRUE]])

\* parser.rs 94-102, then the rest of the generated _from_args, then (in a
\* subcommand) the return into the parent's loop, which breaks.
DoFinish(stk) ==
    LET f == Top(stk)
        lvl == Len(stk)
    IN  IF f.help_requested
        THEN Exit(EarlyExitHelp(f.cmd_name, f.ty, global_options(stk, lvl - 1)))
        ELSE IF Missing(f) # NoneMissing
        THEN Exit(EarlyExitErr(MissingRequirementsError(Missing(f))))
        ELSE IF lvl = 1
        THEN Exit(Parsed(StructValue(f)))
        ELSE Continue([SubSeq(stk, 1, lvl - 1) EXCEPT ![lvl - 1] =
                         [@ EXCEPT !.subcommand = << StructValue(f) >>,
                                   !.help_requested = FALSE,
                                   !.escaped = TRUE]])

\* The _from_args of a subcommand enum called directly (derive lib.rs
\* 842-868): the stack and the outcome after it delegated or failed.
DoEnumDispatch(sub, name, a) ==
    LET e == EnumFromArgs(sub, name, a)
    IN  CASE e.kind = "Static" -> Continue(<< NewFrame(e.ty, name, a) >>)
          [] e.kind = "Dynamic" ->
               IF e.result.error # NoError THEN Exit(EarlyExitErr(e.result.error))
               ELSE Exit(Parsed(e.result.value))
          [] e.kind = "NoName" ->
               Exit(EarlyExitErr(Other("no subcommand name")))
          [] OTHER ->
               Exit(EarlyExitErr(Other("no subcommand matched")))

StepOf(stk) ==
    LET c == Classify(stk)
    IN  CASE c = "HelpToken" -> DoHelpToken(stk)
          [] c = "EndOfOptions" -> DoEndOfOptions(stk)
          [] c = "OptionsAfterHelp" -> DoOptionsAfterHelp(stk)
          [] c = "SliceFault" -> DoSliceFault(stk)
          [] c = "CombinedShortOptions" -> DoCombinedShortOptions(stk)
          [] c = "SingleOption" -> DoSingleOption(stk)
          [] c = "SubCommand" -> DoSubCommand(stk)
          [] c = "Positional" -> DoPositional(stk)
          [] c = "Finish" -> DoFinish(stk)

\* The outcome of a whole parse that starts from the stack stk.
RECURSIVE Run(_)
Run(stk) ==
    LET r == StepOf(stk)
    IN  IF r.outcome # Running THEN r.outcome ELSE Run(r.stack)

\* FromArgs::from_args
from_args(ty, command_name, tokens) == Run(<< NewFrame(ty, command_name, tokens) >>)

(***************************************************************************)
(* The state machine.                                                      *)
(***************************************************************************)
\* No value is being rendered or validated: the variables given and result
\* belong to the functions that are applied outside a parse.
NoFunctionCall == given = << >> /\ result = << >>

\* from_args is called on a struct with the name of the program, or on a
\* subcommand enum with any command name.
Called(n) ==
  /\ NoFunctionCall
  /\
    \/ /\ root \in Roots
       /\ called_as = << t_cmdname >>
       /\ args \in SeqsUpTo(Alphabet(root), n)
       /\ stack = << NewFrame(root, called_as, args) >>
       /\ outcome = Running
    \/ /\ root \in EnumRoots
       /\ called_as \in CommandNames(root)
       /\ args \in SeqsUpTo(EnumAlphabet(root), n)
       /\ stack = << >>
       /\ outcome = Dispatching

Init == Called(MaxLen)

Becomes(r) ==
    /\ stack' = r.stack
    /\ outcome' = r.outcome
    /\ UNCHANGED <<root, called_as, args, given, result>>

At(c) == outcome = Running /\ Classify(stack) = c

EnumDispatch ==
    /\ outcome = Dispatching
    /\ Becomes(DoEnumDispatch(Enums[root], called_as, args))

HelpToken == At("HelpToken") /\ Becomes(DoHelpToken(stack))

EndOfOptions == At("EndOfOptions") /\ Becomes(DoEndOfOptions(stack))

OptionsAfterHelp == At("OptionsAfterHelp") /\ Becomes(DoOptionsAfterHelp(stack))

SliceFault == At("SliceFault") /\ Becomes(DoSliceFault(stack))

CombinedShortOptions ==
    At("CombinedShortOptions") /\ Becomes(DoCombinedShortOptions(stack))

SingleOption == At("SingleOption") /\ Becomes(DoSingleOption(stack))

SubCommand == At("SubCommand") /\ Becomes(DoSubCommand(stack))

Positional == At("Positional") /\ Becomes(DoPositional(stack))

Finish == At("Finish") /\ Becomes(DoFinish(stack))

Next ==
    \/ EnumDispatch
    \/ HelpToken
    \/ EndOfOptions
    \/ OptionsAfterHelp
    \/ SliceFault
    \/ CombinedShortOptions
    \/ SingleOption
    \/ SubCommand
    \/ Positional
    \/ Finish

Spec == Init /\ [][Next]_vars

\* The same machine on the shorter token lists, with the scheduling of a
\* sequential computation: a parse that can take a step takes it.
LiveInit == Called(MaxLiveLen)

LiveSpec == LiveInit /\ [][Next]_vars /\ WF_vars(Next)

TypeOK ==
    /\ root \in Roots \cup EnumRoots
    /\ outcome.kind \in {"Dispatching", "Running", "Ok", "Help", "Err", "Panic"}
    /\ (outcome = Running) = (stack # << >>)

(***************************************************************************)
(* Vocabulary of the properties.                                           *)
(***************************************************************************)
Depth == Len(stack)

\* The levels that are still on the stack after the step.
Kept == {i \in 1..Len(stack) : i <= Len(stack')}

\* The step leaves every slot of level i as it is.
SlotsUnchanged(i) ==
    /\ stack'[i].slots = stack[i].slots
    /\ stack'[i].positionals = stack[i].positionals
    /\ stack'[i].subcommand = stack[i].subcommand

OptionBranches == {"OptionsAfterHelp", "CombinedShortOptions", "SingleOption"}

\* The errors raised while tokens are consumed (all but MissingRequirements).
TokenErrors ==
    {"DuplicateOption", "MissingArgValue", "UnknownArgument", "OptionsAfterHelp",
     "ParseArgument", "Other"}

EndsWithTokenError(o) == o.kind = "Err" /\ o.error.err \in TokenErrors

HelpPending == \E i \in 1..Len(stack) : stack[i].help_requested

\* Some level reachable from type ty has a dynamic subcommand handler.
RECURSIVE UsesDynamic(_)
UsesDynamic(ty) ==
    LET sub == Schemas[ty].subcommand
    IN  /\ sub # << >>
        /\ \/ sub[1].dynamic # << >>
           \/ \E k \in 1..Len(sub[1].commands) : UsesDynamic(sub[1].commands[k])

StaticOnly == root \in Roots /\ ~UsesDynamic(root)

\* The next step dispatches to a derived (static) subcommand type.
AtStaticSubCommand ==
    /\ outcome = Running
    /\ Classify(stack) = "SubCommand"
    /\ MatchSubCommand(Top(stack), to_str(Head(Top(stack).remaining_args)))
           <= Len(Schemas[Top(stack).ty].subcommand[1].commands)

\* The first position of token t in the sequence s, or 0.
FirstIndex(s, t) ==
    LET hits == {i \in 1..Len(s) : s[i] = t}
    IN  IF hits = {} THEN 0 ELSE CHOOSE i \in hits : \A j \in hits : i <= j

(***************************************************************************)
(* C1.  At one level, once `--` has been consumed while option scanning    *)
(* was active, scanning stays ended for the rest of the level: the step    *)
(* that consumes `--` changes no slot; afterwards every token of the level *)
(* takes the bare-value branch (subcommand or positional), and a token of  *)
(* the level changes no option slot and no help state.  For StringList     *)
(* the result is strs = bare tokens before `--` followed by all tokens     *)
(* after it, flag = (--flag stands before `--`).                           *)
(***************************************************************************)
C1_EndedLevelTakesBareBranch ==
    (outcome = Running /\ Top(stack).options_ended)
        => Classify(stack) \in {"SubCommand", "Positional", "Finish"}

C1_MarkerStoredNowhere ==
    (outcome = Running /\ Classify(stack) = "EndOfOptions")
        => /\ outcome' = Running
           /\ Len(stack') = Depth
           /\ \A i \in 1..Depth : SlotsUnchanged(i)
           /\ stack'[Depth].options_ended
           /\ stack'[Depth].remaining_args = Tail(stack[Depth].remaining_args)
           /\ stack'[Depth].positional_index = stack[Depth].positional_index

C1_StaysEnded ==
    \A i \in Kept :
        stack[i].options_ended
            => /\ stack'[i].options_ended
               /\ i = Depth => /\ \A j \in 1..Depth : stack'[j].slots = stack[j].slots
                               /\ stack'[i].help_cmd = stack[i].help_cmd
                               /\ stack'[i].help_requested = stack[i].help_requested

C1_StringListResult ==
    LET i == FirstIndex(args, t_dd)
        before == SubSeq(args, 1, i - 1)
        after == SubSeq(args, i + 1, Len(args))
    IN  (/\ root = "StringList" /\ outcome # Running /\ i # 0
         /\ \A j \in 1..Len(before) : before[j] \in {t_flag, Word("b")})
            => outcome = Parsed([ty |-> "StringList",
                                 options |-> << \E j \in 1..Len(before) : before[j] = t_flag >>,
                                 positionals |->
                                     << SelectSeq(before, LAMBDA t : t = Word("b")) \o after >>,
                                 subcommand |-> << >>])

C1_DoubleDashEndsOptionsAtLevel ==
    /\ [](C1_EndedLevelTakesBareBranch /\ C1_StringListResult)
    /\ [][C1_MarkerStoredNowhere /\ C1_StaysEnded]_vars

C1_Witness ==
    /\ root = "StringList"
    /\ args = << t_flag, t_dd, Short("a"), Word("b") >>
    /\ outcome = Parsed([ty |-> "StringList", options |-> << TRUE >>,
                         positionals |-> << << Short("a"), Word("b") >> >>,
                         subcommand |-> << >>])

(***************************************************************************)
(* C2.  Double-dash ends flags and options for the remainder of the        *)
(* command line, also below a subcommand: once some level has consumed     *)
(* `--`, no token is taken as a help request, a marker or an option at any *)
(* level.  (A level with a greedy positional is left out: its scanning     *)
(* also ends when the greedy positional captures its first value.)         *)
(***************************************************************************)
C2_NoOptionAfterDoubleDash ==
    (/\ outcome = Running
     /\ \E i \in 1..Len(stack) : stack[i].options_ended /\ ~last_is_greedy(Schemas[stack[i].ty]))
        => Classify(stack) \in {"SubCommand", "Positional", "Finish"}

(***************************************************************************)
(* C3.  As stated: a help token anywhere in the token list before any `--` *)
(* makes the parse end with the Help outcome, whatever the other tokens.   *)
(***************************************************************************)
C3_HelpTokenBeforeMarker ==
    \E i \in 1..Len(args) :
        /\ IsHelpArg(args[i])
        /\ \A j \in 1..(i - 1) : args[j] # t_dd

C4_Step ==
    (StaticOnly /\ HelpPending)
        => \/ HelpPending'
           \/ outcome'.kind = "Help"
           \/ EndsWithTokenError(outcome')

C4_HelpBeforeRequirementCheck == [][C4_Step]_vars

(***************************************************************************)
(* C5.  When help was requested at a level and a bare token matches a      *)
(* subcommand, the child is given `help` followed by the rest, and a Help  *)
(* outcome is always the help of the deepest level: its command name is    *)
(* the root name followed by the matched subcommand names in order.        *)
(***************************************************************************)
C5_CommandPath ==
    \A i \in 1..Len(stack) :
        /\ Len(stack[i].cmd_name) = i
        /\ i > 1 => stack[i].cmd_name =
                        Append(stack[i - 1].cmd_name, Schemas[stack[i].ty].name)

C5_HelpTopLevelResult ==
    (root = "HelpTopLevel" /\ outcome.kind = "Help")
        => LET names == SelectSeq(args, LAMBDA t : t \in {t_first, t_second})
           IN  /\ outcome.cmd_name = << t_cmdname >> \o names
               /\ outcome.ty = CASE Len(names) = 0 -> "HelpTopLevel"
                                 [] Len(names) = 1 -> "HelpFirstSub"
                                 [] OTHER -> "HelpSecondSub"

C5_Examples ==
    (/\ root = "HelpTopLevel"
     /\ outcome # Running
     /\ args \in {<< t_help, t_first, t_second >>, << t_first, t_help, t_second >>,
                  << t_first, t_second, t_help_long >>})
        => outcome = EarlyExitHelp(<< t_cmdname, t_first, t_second >>, "HelpSecondSub", << >>)

C5_Dispatch ==
    (AtStaticSubCommand /\ outcome' = Running)
        => /\ Len(stack') = Depth + 1
           /\ stack'[Depth + 1].remaining_args =
                 (IF stack[Depth].help_requested THEN << t_help >> ELSE << >>)
                     \o Tail(stack[Depth].remaining_args)

C5_HelpIsOfDeepestLevel ==
    outcome'.kind = "Help"
        => /\ outcome'.cmd_name = Top(stack).cmd_name
           /\ outcome'.ty = Top(stack).ty
           /\ Top(stack).help_requested

C5_HelpForwardedToSubcommand ==
    /\ [](C5_CommandPath /\ C5_HelpTopLevelResult /\ C5_Examples)
    /\ [][C5_Dispatch /\ C5_HelpIsOfDeepestLevel]_vars

C5_Witness ==
    /\ root = "HelpTopLevel"
    /\ args = << t_help, t_first, t_second >>
    /\ outcome = EarlyExitHelp(<< t_cmdname, t_first, t_second >>, "HelpSecondSub", << >>)

(***************************************************************************)
(* C6.  Once the literal `help` has been consumed at a level while its     *)
(* scanning is active, any further option-looking token of that level      *)
(* makes the parse fail with OptionsAfterHelp.  Stated for the root level, *)
(* where the tokens consumed so far are a prefix of the token list: if the *)
(* prefix holds only help tokens, `help` among them, and the next token    *)
(* starts with `-` and is neither `--` nor a help flag, the step fails     *)
(* with OptionsAfterHelp.                                                  *)
(***************************************************************************)
Consumed == SubSeq(args, 1, Len(args) - Len(stack[1].remaining_args))

C6_AtOptionAfterHelpKeyword ==
    /\ outcome = Running
    /\ Depth = 1
    /\ \A j \in 1..Len(Consumed) : IsHelpArg(Consumed[j])
    /\ \E j \in 1..Len(Consumed) : Consumed[j] = t_help
    /\ Classify(stack) \in {"OptionsAfterHelp", "CombinedShortOptions", "SingleOption"}

C6_OptionAfterHelpKeywordFails ==
    [][C6_AtOptionAfterHelpKeyword => outcome' = EarlyExitErr(OptionsAfterHelpError)]_vars

(***************************************************************************)
(* C7.  OptionsAfterHelp is returned only when the literal `help` is in    *)
(* the token list: with help requested through --help or -h only, the      *)
(* parse never fails with OptionsAfterHelp.                                *)
(***************************************************************************)
C7_OptionsAfterHelpOnlyAfterKeyword ==
    outcome = EarlyExitErr(OptionsAfterHelpError)
        => \E i \in 1..Len(args) : args[i] = t_help

(***************************************************************************)
(* C8.  A bundle of short options is equivalent to the same options given  *)
(* as separate tokens: when the first token is -c1c2...ck (k >= 2, c1 not  *)
(* `-`) and c1..c(k-1) take no value, the outcome is the outcome of the    *)
(* parse of -c1 -c2 ... -ck followed by the same rest.                     *)
(***************************************************************************)
Separate(bundle) == [k \in 1..(Len(bundle) - 1) |-> Short(bundle[k + 1])]

\* What the option token arg resolves to at the top of the stack: the kind
\* of slot ("Flag", "Value") or "None".
RECURSIVE GlobalKind(_, _, _)
GlobalKind(stk, lvl, arg) ==
    IF lvl = 0 THEN "None"
    ELSE LET sch == Schemas[stk[lvl].ty]
             i == FindGlobalArg(sch, arg)
         IN  IF i # 0 THEN sch.slots[sch.arg_to_slot[i][2]].kind
             ELSE GlobalKind(stk, lvl - 1, arg)

OptionKind(stk, arg) ==
    LET sch == Schemas[Top(stk).ty]
        i == FindArg(sch, arg)
    IN  IF i # 0 THEN sch.slots[sch.arg_to_slot[i][2]].kind
        ELSE GlobalKind(stk, Len(stk) - 1, arg)

C8_FirstIsBundle ==
    /\ args # << >>
    /\ starts_with_dash(args[1])
    /\ IsCombined(args[1])
    /\ \A k \in 2..(Len(args[1]) - 1) :
           OptionKind(<< NewFrame(root, << t_cmdname >>, args) >>, Short(args[1][k])) # "Value"

C8_BundleEqualsSeparateOptions ==
    (outcome # Running /\ C8_FirstIsBundle)
        => outcome = from_args(root, << t_cmdname >>, Separate(args[1]) \o Tail(args))

(***************************************************************************)
(* C9.  As stated: when the token being read is a bundle in which a value- *)
(* taking option stands in a non-final position, the parse fails with      *)
(* MissingArgValue naming that option.                                     *)
(***************************************************************************)
\* The token read next is an option token with the shape of a bundle.
C9_AtBundle ==
    /\ outcome = Running
    /\ ~Top(stack).escaped
    /\ Top(stack).remaining_args # << >>
    /\ ~Top(stack).options_ended
    /\ starts_with_dash(Head(Top(stack).remaining_args))
    /\ IsCombined(Head(Top(stack).remaining_args))

C9_Chars == Tail(Head(Top(stack).remaining_args))

\* The non-final positions of the bundle that hold a value-taking option.
C9_ValuePositions ==
    {k \in 1..(Len(C9_Chars) - 1) : OptionKind(stack, Short(C9_Chars[k])) = "Value"}

C9_FirstValue == CHOOSE k \in C9_ValuePositions : \A j \in C9_ValuePositions : k <= j

C9_ValueInsideBundleAlwaysFails ==
    [][(C9_AtBundle /\ C9_ValuePositions # {})
          => outcome' = EarlyExitErr(MissingArgValue(Short(C9_Chars[C9_FirstValue])))]_vars

(***************************************************************************)
(* C9, amended.  When the bundle is read with no `help` keyword in effect  *)
(* at the level and every character before its first value-taking option   *)
(* resolves to a switch, a value-taking option in a non-final position     *)
(* makes the parse fail with MissingArgValue naming that option, whatever  *)
(* tokens follow the bundle.                                               *)
(***************************************************************************)
C9_Amended_Pre ==
    /\ C9_AtBundle
    /\ C9_ValuePositions # {}
    /\ ~Top(stack).help_cmd
    /\ \A j \in 1..(C9_FirstValue - 1) : OptionKind(stack, Short(C9_Chars[j])) = "Flag"

C9_ValueInsideBundleFails ==
    [][C9_Amended_Pre
          => outcome' = EarlyExitErr(MissingArgValue(Short(C9_Chars[C9_FirstValue])))]_vars

C9_Witness ==
    /\ root = "ShortCombined"
    /\ args = << << "-", "n", "q" >>, Word("5") >>
    /\ outcome = EarlyExitErr(MissingArgValue(Short("n")))

(***************************************************************************)
(* C10.  An option token is matched against the level's own table before   *)
(* the parent chain: an option of a subcommand whose name an ancestor also *)
(* declares as global fills the subcommand's slot and leaves every         *)
(* ancestor's slots unchanged.                                             *)
(***************************************************************************)
C10_NextArg == Head(Top(stack).remaining_args)

C10_LocalSlot ==
    Schemas[Top(stack).ty].arg_to_slot[FindArg(Schemas[Top(stack).ty], C10_NextArg)][2]

C10_AtShadowedOption ==
    /\ outcome = Running
    /\ Depth > 1
    /\ Classify(stack) = "SingleOption"
    /\ FindArg(Schemas[Top(stack).ty], C10_NextArg) # 0
    /\ GlobalKind(stack, Depth - 1, C10_NextArg) # "None"

C10_Step ==
    (C10_AtShadowedOption /\ outcome' = Running)
        => /\ Len(stack') = Depth
           /\ \A i \in 1..(Depth - 1) : SlotsUnchanged(i)
           /\ stack'[Depth].slots[C10_LocalSlot] # stack[Depth].slots[C10_LocalSlot]

C10_Examples ==
    /\ (root = "ShadowTop" /\ outcome # Running /\ args = << t_sub, Long("a"), Word("b") >>)
          => outcome = Parsed([ty |-> "ShadowTop", options |-> << << >>, FALSE >>,
                               positionals |-> << >>,
                               subcommand |->
                                   << [ty |-> "ShadowSub", options |-> << << Word("b") >> >>,
                                       positionals |-> << << >> >>,
                                       subcommand |-> << >>] >>])
    /\ (root = "ShadowTop" /\ outcome # Running /\ args = << t_sub, Short("a"), Word("b") >>)
          => outcome = Parsed([ty |-> "ShadowTop", options |-> << << Word("b") >>, FALSE >>,
                               positionals |-> << >>,
                               subcommand |->
                                   << [ty |-> "ShadowSub", options |-> << << >> >>,
                                       positionals |-> << << >> >>,
                                       subcommand |-> << >>] >>])

C10_LocalTableBeforeParentChain == []C10_Examples /\ [][C10_Step]_vars

C10_Witness ==
    /\ root = "ShadowTop"
    /\ args = << t_sub, Long("a"), Word("b") >>
    /\ outcome.kind = "Ok"
    /\ outcome.value.options[1] = << >>
    /\ outcome.value.subcommand[1].options[1] = << Word("b") >>

(***************************************************************************)
(* C11.  A global option of the root that no descendant declares again can *)
(* be given at any level: for TopLevel, whenever a parse that contains     *)
(* `--a v` succeeds, the root's result holds v, and the parse of the same  *)
(* tokens with `--a v` moved to any other place (before the subcommand     *)
(* names, between them or after them) gives the same result.               *)
(***************************************************************************)
C11_Pos == FirstIndex(args, Long("a"))

C11_Rest == SubSeq(args, 1, C11_Pos - 1) \o SubSeq(args, C11_Pos + 2, Len(args))

\* The places of C11_Rest where an option can be put: not between a value
\* option and its value.
C11_Places == {p \in 0..Len(C11_Rest) : p = 0 \/ C11_Rest[p] # Long("x")}

C11_MovedTo(p) ==
    SubSeq(C11_Rest, 1, p) \o << Long("a"), args[C11_Pos + 1] >>
        \o SubSeq(C11_Rest, p + 1, Len(C11_Rest))

C11_GlobalOptionAtAnyLevel ==
    (root = "TopLevel" /\ outcome.kind = "Ok" /\ C11_Pos # 0)
        => /\ outcome.value.options[1] = DigitsVal(args[C11_Pos + 1])
           /\ \A p \in C11_Places :
                 from_args("TopLevel", << t_cmdname >>, C11_MovedTo(p)) = outcome

C11_Witness ==
    /\ root = "TopLevel"
    /\ args = << t_one, t_two, Long("a"), Word("2") >>
    /\ outcome.kind = "Ok"
    /\ outcome.value.options[1] = 2
    /\ outcome = from_args("TopLevel", << t_cmdname >>,
                           << Long("a"), Word("2"), t_one, t_two >>)

(***************************************************************************)
(* C12.  Options propagate down only when global and never up: an option   *)
(* token that is neither in the table of the current level nor a global    *)
(* option of an ancestor fails with UnknownArgument carrying the token.    *)
(* So does the non-global --x of TopLevel inside `one`, and so does the    *)
(* global --b of `one` before the subcommand name.                         *)
(***************************************************************************)
C12_Arg == to_str(Head(Top(stack).remaining_args))

C12_Declares(ty, arg) ==
    \E k \in 1..Len(Schemas[ty].arg_to_slot) : Schemas[ty].arg_to_slot[k][1] = arg

C12_DeclaresGlobal(ty, arg) ==
    \E k \in 1..Len(Schemas[ty].arg_to_slot) :
        /\ Schemas[ty].arg_to_slot[k][1] = arg
        /\ Schemas[ty].slots_global[Schemas[ty].arg_to_slot[k][2]]

C12_Visible ==
    \/ C12_Declares(Top(stack).ty, C12_Arg)
    \/ \E i \in 1..(Depth - 1) : C12_DeclaresGlobal(stack[i].ty, C12_Arg)

C12_Step ==
    (outcome = Running /\ Classify(stack) = "SingleOption" /\ ~C12_Visible)
        => outcome' = EarlyExitErr(UnknownArgument(C12_Arg))

C12_Examples ==
    /\ (root = "TopLevel" /\ outcome.kind # "Running"
           /\ args = << t_one, Long("x"), Word("2") >>)
          => outcome = EarlyExitErr(UnknownArgument(Long("x")))
    /\ (root = "TopLevel" /\ outcome.kind # "Running" /\ args = << Long("b"), t_one >>)
          => outcome = EarlyExitErr(UnknownArgument(Long("b")))

C12_OptionsPropagateDownOnlyWhenGlobal == []C12_Examples /\ [][C12_Step]_vars

\* The non-global --x of the root given inside the subcommand `one`.
C12_Witness ==
    /\ root = "TopLevel"
    /\ args = << t_one, Long("x"), Word("2") >>
    /\ outcome = EarlyExitErr(UnknownArgument(Long("x")))

(***************************************************************************)
(* C13: a repeating value option given n times with convertible values     *)
(* succeeds and yields exactly those n values in the order of the token    *)
(* list, and a repeating slot never raises DuplicateOption; the same holds *)
(* for a final repeating positional receiving n bare tokens.               *)
(***************************************************************************)
\* The token list is `--msg v1 --msg v2 ...`.
C13_OptionGivenNTimes ==
    /\ Len(args) % 2 = 0
    /\ \A i \in 1..Len(args) : i % 2 = 1 => args[i] = t_msg

C13_Values == [k \in 1..(Len(args) \div 2) |-> args[2 * k]]

C13_BareTokens ==
    \A i \in 1..Len(args) : ~starts_with_dash(args[i]) /\ ~IsHelpArg(args[i])

C13_RepeatingCollectsInOrder ==
    /\ (root = "OptionRepeating" /\ outcome # Running /\ C13_OptionGivenNTimes)
           => outcome.kind = "Ok" /\ outcome.value.options[1] = C13_Values
    /\ (root = "StringList" /\ outcome # Running /\ C13_BareTokens)
           => outcome.kind = "Ok" /\ outcome.value.positionals[1] = args
    /\ (root \in {"OptionRepeating", "StringList"} /\ outcome.kind = "Err")
           => outcome.error.err # "DuplicateOption"

C13_Witness ==
    /\ root = "OptionRepeating"
    /\ args = << t_msg, t_abc, t_msg, t_xyz >>
    /\ outcome.kind = "Ok"
    /\ outcome.value.options[1] = << t_abc, t_xyz >>

(***************************************************************************)
(* C14: giving a non-repeating value option (its name and a value) a       *)
(* second time fails with DuplicateOption carrying the option token as     *)
(* typed at the second occurrence, also when the two occurrences use the   *)
(* short and the long name of one slot, and whether the option is          *)
(* required, optional or defaulted.                                        *)
(***************************************************************************)
\* The level and slot an option token is resolved to: the local table of the
\* top level first, then the global entries from the top level downwards.
RECURSIVE C14_GlobalSlot(_, _)
C14_GlobalSlot(lvl, arg) ==
    IF lvl = 0 THEN [lvl |-> 0, pos |-> 0]
    ELSE LET sch == Schemas[stack[lvl].ty]
             i == FindGlobalArg(sch, arg)
         IN  IF i # 0 THEN [lvl |-> lvl, pos |-> sch.arg_to_slot[i][2]]
             ELSE C14_GlobalSlot(lvl - 1, arg)

C14_Slot(arg) ==
    LET sch == Schemas[Top(stack).ty]
        i == FindArg(sch, arg)
    IN  IF i # 0 THEN [lvl |-> Len(stack), pos |-> sch.arg_to_slot[i][2]]
        ELSE C14_GlobalSlot(Len(stack), arg)

\* The next token names a non-repeating value option whose slot already holds
\* a value, and a value token follows it.
C14_SecondOccurrence ==
    /\ outcome = Running
    /\ Classify(stack) = "SingleOption"
    /\ Len(Top(stack).remaining_args) >= 2
    /\ LET s == C14_Slot(Head(Top(stack).remaining_args))
       IN  /\ s.lvl # 0
           /\ Schemas[stack[s.lvl].ty].slots[s.pos].kind = "Value"
           /\ Schemas[stack[s.lvl].ty].slots[s.pos].opt # "Repeating"
           /\ stack[s.lvl].slots[s.pos] # << >>

C14_Step ==
    C14_SecondOccurrence
        => outcome' = EarlyExitErr(DuplicateOption(Head(Top(stack).remaining_args)))

C14_Ends(r, a, o) == (root = r /\ args = a /\ outcome # Running) => outcome = o

C14_Examples ==
    /\ C14_Ends("OneOption", << t_foo, t_bar, t_foo, t_bar >>,
                EarlyExitErr(DuplicateOption(t_foo)))
    /\ C14_Ends("ShadowTop", << Short("a"), Word("b"), Long("a"), Word("b") >>,
                EarlyExitErr(DuplicateOption(Long("a"))))
    /\ C14_Ends("ShadowTop", << Long("a"), Word("b"), Short("a"), Word("b") >>,
                EarlyExitErr(DuplicateOption(Short("a"))))
    /\ C14_Ends("TopLevel", << Long("a"), Word("2"), Long("a"), Word("2") >>,
                EarlyExitErr(DuplicateOption(Long("a"))))
    /\ C14_Ends("ShortCombined", << Short("n"), Word("5"), <<"-", "q", "v", "n">>, Word("5") >>,
                EarlyExitErr(DuplicateOption(Short("n"))))

C14_SecondOccurrenceIsDuplicateOption == []C14_Examples /\ [][C14_Step]_vars

C14_Witness ==
    /\ root = "ShadowTop"
    /\ args = << Short("a"), Word("b"), Long("a"), Word("b") >>
    /\ outcome = EarlyExitErr(DuplicateOption(Long("a")))

(***************************************************************************)
(* C15: the requirement check of a level reports all unmet requirements    *)
(* together: every required positional that is still empty (by name, in    *)
(* declaration order), every required option that is still empty (by long  *)
(* name, in declaration order) and, if a required subcommand was not       *)
(* selected, the full list of static then dynamic subcommand names; the    *)
(* error is raised if and only if at least one of these is present.        *)
(***************************************************************************)
C15_Range(s) == {s[i] : i \in 1..Len(s)}

C15_Increasing(s, names) ==
    \A i, j \in 1..Len(s) :
        i < j => \E p, q \in 1..Len(names) : p < q /\ names[p] = s[i] /\ names[q] = s[j]

\* The level about to run its requirement check, and what it lacks.
C15_Level == Top(stack)

C15_EmptyPositionals ==
    {Schemas[C15_Level.ty].positionals[i].name :
        i \in {k \in 1..Len(Schemas[C15_Level.ty].positionals) :
                  /\ Schemas[C15_Level.ty].positionals[k].opt = "None"
                  /\ C15_Level.positionals[k] = << >>}}

C15_EmptyOptions ==
    {Schemas[C15_Level.ty].slots[i].long :
        i \in {k \in 1..Len(Schemas[C15_Level.ty].slots) :
                  /\ Schemas[C15_Level.ty].slots[k].kind = "Value"
                  /\ Schemas[C15_Level.ty].slots[k].opt = "None"
                  /\ C15_Level.slots[k] = << >>}}

C15_SubCommandLacking ==
    /\ Schemas[C15_Level.ty].subcommand # << >>
    /\ Schemas[C15_Level.ty].subcommand[1].opt = "None"
    /\ C15_Level.subcommand = << >>

C15_Lacking == C15_EmptyPositionals # {} \/ C15_EmptyOptions # {} \/ C15_SubCommandLacking

C15_Reported(req) ==
    /\ C15_Range(req.positional_args) = C15_EmptyPositionals
    /\ C15_Increasing(req.positional_args,
                      [i \in 1..Len(Schemas[C15_Level.ty].positionals) |->
                          Schemas[C15_Level.ty].positionals[i].name])
    /\ C15_Range(req.options) = C15_EmptyOptions
    /\ C15_Increasing(req.options,
                      [i \in 1..Len(Schemas[C15_Level.ty].slots) |->
                          Schemas[C15_Level.ty].slots[i].long])
    /\ req.subcommands =
          (IF C15_SubCommandLacking
           THEN << SubCommandNames(Schemas[C15_Level.ty].subcommand[1]) >>
           ELSE << >>)

C15_Step ==
    (outcome = Running /\ Classify(stack) = "Finish" /\ ~C15_Level.help_requested)
        => /\ C15_Lacking <=> (outcome'.kind = "Err"
                                 /\ outcome'.error.err = "MissingRequirements")
           /\ C15_Lacking => C15_Reported(outcome'.error.req)

C15_Fails(r, a, pos, opts, cmds) ==
    (root = r /\ args = a /\ outcome # Running)
        => outcome = EarlyExitErr(MissingRequirementsError(
                        [options |-> opts, subcommands |-> cmds, positional_args |-> pos]))

C15_Examples ==
    /\ C15_Fails("LastRequired", << >>, << Word("a"), Word("b") >>, << >>, << >>)
    /\ C15_Fails("LastRequired", << Word("5") >>, << Word("b") >>, << >>, << >>)
    /\ C15_Fails("WithOption", << >>, << Word("a") >>, << Long("b") >>, << >>)
    /\ C15_Fails("DynTopLevel", << >>, << >>, << >>,
                 << << t_one, t_two, t_three, t_four, t_five >> >>)
    /\ (root = "LastRequired" /\ args = << Word("5"), Word("6") >> /\ outcome # Running)
          => outcome.kind = "Ok" /\ outcome.value.positionals = << 5, 6 >>

C15_AllUnmetRequirementsReported == []C15_Examples /\ [][C15_Step]_vars

C15_Witness ==
    /\ root = "LastRequired"
    /\ args = << >>
    /\ outcome = EarlyExitErr(MissingRequirementsError(
                    [options |-> << >>, subcommands |-> << >>,
                     positional_args |-> << Word("a"), Word("b") >>]))

(***************************************************************************)
(* C16: for every schema with a greedy final positional, once the greedy   *)
(* positional has captured a value, every subsequent token of that level,  *)
(* whatever its text, is appended verbatim and in order to the greedy      *)
(* positional's collection and is never reinterpreted.                     *)
(***************************************************************************)
\* The collection of the greedy positional of the level on top of the stack.
C16_Greedy(stk) == Top(stk).positionals[Len(Top(stk).positionals)]

\* The greedy positional of the top level holds a value and a token is left.
C16_GreedyActive ==
    /\ outcome = Running
    /\ last_is_greedy(Schemas[Top(stack).ty])
    /\ last_is_repeating(Schemas[Top(stack).ty])
    /\ C16_Greedy(stack) # << >>
    /\ Classify(stack) # "Finish"

C16_GreedyTakesEveryLaterToken ==
    [][C16_GreedyActive
          => /\ outcome' = Running
             /\ Len(stack') = Len(stack)
             /\ C16_Greedy(stack') =
                   Append(C16_Greedy(stack), Head(Top(stack).remaining_args))]_vars

(***************************************************************************)
(* C17.  As stated: a `--` read after the greedy positional has captured   *)
(* its first value is stored as data in the greedy collection, whereas a   *)
(* `--` read before that point is consumed as the end-of-options marker    *)
(* and stored nowhere; options given before the first greedy value are     *)
(* still parsed as options.                                                *)
(***************************************************************************)
\* The top level has a greedy positional and reads the token t next.
C17_Reads(t) ==
    /\ outcome = Running
    /\ last_is_greedy(Schemas[Top(stack).ty])
    /\ last_is_repeating(Schemas[Top(stack).ty])
    /\ Classify(stack) # "Finish"
    /\ Head(Top(stack).remaining_args) = t

C17_OptionTokens == {Long("b"), Long("c")}

\* The step consumes the token as the marker and stores it nowhere.
C17_ConsumedAsMarker ==
    /\ outcome' = Running
    /\ stack' = [stack EXCEPT ![Len(stack)].remaining_args = Tail(@),
                              ![Len(stack)].options_ended = TRUE]

C17_StoredAsData ==
    /\ outcome' = Running
    /\ C16_Greedy(stack') = Append(C16_Greedy(stack), t_dd)

C17_AfterFirstValue == (C17_Reads(t_dd) /\ C16_Greedy(stack) # << >>) => C17_StoredAsData

C17_GreedyResult(a, b, c, d) ==
    Parsed([ty |-> "LastRepeatingGreedy", options |-> << b, c >>,
            positionals |-> << a, d >>, subcommand |-> << >>])

\* tests/lib.rs positional::positional_greedy
C17_Examples ==
    /\ from_args("LastRepeatingGreedy", << t_cmdname >>,
                 << Word("5"), t_foo_word, t_bar, t_dd, t_hi >>)
          = C17_GreedyResult(5, FALSE, << >>, << t_foo_word, t_bar, t_dd, t_hi >>)
    /\ from_args("LastRepeatingGreedy", << t_cmdname >>,
                 << Word("5"), Long("b"), t_foo_word, t_bar >>)
          = C17_GreedyResult(5, TRUE, << >>, << t_foo_word, t_bar >>)

C17_DoubleDashAroundGreedy ==
    /\ [](root = "LastRepeatingGreedy" /\ args = << >> => C17_Examples)
    /\ [][/\ C17_AfterFirstValue
          /\ (C17_Reads(t_dd) /\ C16_Greedy(stack) = << >>) => C17_ConsumedAsMarker
          /\ \A t \in C17_OptionTokens :
                (C17_Reads(t) /\ C16_Greedy(stack) = << >>)
                    => Classify(stack) \in OptionBranches]_vars

(***************************************************************************)
(* C17, amended.  The `--` read before the first greedy value is the       *)
(* marker only while the option scanning of the level is still active; a   *)
(* `--` read after an earlier `--` is a positional value.  The same goes   *)
(* for the options given before the first greedy value.                    *)
(***************************************************************************)
C17_DoubleDashAroundGreedyWhileScanning ==
    /\ [](root = "LastRepeatingGreedy" /\ args = << >> => C17_Examples)
    /\ [][/\ C17_AfterFirstValue
          /\ (C17_Reads(t_dd) /\ C16_Greedy(stack) = << >> /\ ~Top(stack).options_ended)
                => C17_ConsumedAsMarker
          /\ (C17_Reads(t_dd) /\ C16_Greedy(stack) = << >> /\ Top(stack).options_ended)
                => Classify(stack) = "Positional"
          /\ \A t \in C17_OptionTokens :
                (C17_Reads(t) /\ C16_Greedy(stack) = << >> /\ ~Top(stack).options_ended)
                    => Classify(stack) \in OptionBranches]_vars

C17_Witness ==
    /\ root = "LastRepeatingGreedy"
    /\ args = << Word("5"), t_hi, t_dd, t_hi >>
    /\ outcome = C17_GreedyResult(5, FALSE, << >>, << t_hi, t_dd, t_hi >>)

(***************************************************************************)
(* C18: for every schema in which no option, positional or subcommand is   *)
(* required, parsing the empty token list succeeds: switches hold their    *)
(* default (false, 0 or None), optional slots are None, repeating slots    *)
(* are empty, an optional subcommand is None and defaulted slots hold      *)
(* their declared default; a defaulted slot holds the supplied value       *)
(* instead whenever one is given.                                          *)
(***************************************************************************)
C18_NothingRequired(ty) ==
    /\ \A i \in 1..Len(Schemas[ty].slots) :
          Schemas[ty].slots[i].kind = "Value" => Schemas[ty].slots[i].opt # "None"
    /\ \A i \in 1..Len(Schemas[ty].positionals) : Schemas[ty].positionals[i].opt # "None"
    /\ Schemas[ty].subcommand # << >> => Schemas[ty].subcommand[1].opt # "None"

\* The field of an untouched declaration d.
C18_Empty(d) ==
    CASE d.opt = "Defaulted" -> d.default
      [] "kind" \in DOMAIN d /\ d.kind = "Flag" /\ d.ty = "bool" -> FALSE
      [] "kind" \in DOMAIN d /\ d.kind = "Flag" /\ d.ty = "Option<bool>" -> << >>
      [] "kind" \in DOMAIN d /\ d.kind = "Flag" /\ d.ty \notin {"bool", "Option<bool>"} -> 0
      [] OTHER -> << >>

C18_AllDefaults ==
    (root \in Roots /\ C18_NothingRequired(root) /\ args = << >> /\ outcome # Running)
        => /\ outcome.kind = "Ok"
           /\ \A i \in 1..Len(Schemas[root].slots) :
                 outcome.value.options[i] = C18_Empty(Schemas[root].slots[i])
           /\ \A i \in 1..Len(Schemas[root].positionals) :
                 outcome.value.positionals[i] = C18_Empty(Schemas[root].positionals[i])
           /\ outcome.value.subcommand = << >>

C18_Examples ==
    (args = << >> /\ outcome # Running)
        => /\ root = "DefaultNumber" => outcome.value.options = << 5 >>
           /\ root = "NoArgs" => outcome.value.options = << << >> >>
           /\ root = "Switches" => outcome.value.options = << FALSE, 0, << >> >>
           /\ root = "StringList" => outcome.value.positionals = << << >> >>
           /\ root = "ShadowTop" => outcome.value.subcommand = << >>

\* Every Ok result of DefaultNumber holds the value given with --x, or 5.
C18_SuppliedValue ==
    (root = "DefaultNumber" /\ outcome.kind = "Ok")
        => outcome.value.options[1] =
              (IF FirstIndex(args, Long("x")) = 0 THEN 5
               ELSE DigitsVal(args[FirstIndex(args, Long("x")) + 1]))

C18_EmptyArgsYieldDefaults == C18_AllDefaults /\ C18_Examples /\ C18_SuppliedValue

C18_Witness ==
    /\ root = "DefaultNumber"
    /\ args = << >>
    /\ outcome.kind = "Ok"
    /\ outcome.value.options = << 5 >>

(***************************************************************************)
(* C19: for every schema and every token list (empty tokens, a lone `-`,   *)
(* tokens whose character after the dash is multi-byte and tokens that are *)
(* not valid text included), the engine returns a success value, a Help    *)
(* outcome or exactly one Error value; it never panics or aborts.          *)
(***************************************************************************)
C19_NeverPanics == outcome.kind # "Panic"

(***************************************************************************)
(* C20: dispatching a subcommand enum directly never panics and yields an  *)
(* Other error when nothing matches: an empty command name gives           *)
(* Other("no subcommand name"); a last element that equals no static       *)
(* variant's name and is not claimed by the dynamic handler gives          *)
(* Other("no subcommand matched"); static variants are tried in declared   *)
(* order before the dynamic handler.                                       *)
(***************************************************************************)
C20_Last == called_as[Len(called_as)]

\* The static variants of the enum that carry the last element as name.
C20_Variants ==
    {k \in 1..Len(Enums[root].commands) : Schemas[Enums[root].commands[k]].name = C20_Last}

C20_FirstVariant == CHOOSE k \in C20_Variants : \A j \in C20_Variants : k <= j

C20_DynamicKnows == \E k \in 1..Len(Enums[root].dynamic) : Enums[root].dynamic[k] = C20_Last

C20_Step ==
    outcome = Dispatching
        => /\ outcome'.kind # "Panic"
           /\ called_as = << >>
                 => outcome' = EarlyExitErr(Other("no subcommand name"))
           /\ (called_as # << >> /\ C20_Variants = {} /\ ~C20_DynamicKnows)
                 => outcome' = EarlyExitErr(Other("no subcommand matched"))
           /\ (called_as # << >> /\ C20_Variants # {})
                 => /\ outcome' = Running
                    /\ stack' = << NewFrame(Enums[root].commands[C20_FirstVariant],
                                           called_as, args) >>
           /\ (called_as # << >> /\ C20_Variants = {} /\ C20_DynamicKnows)
                 => outcome'.kind \in {"Ok", "Err"} /\ stack' = << >>

C20_Ends(r, n, a, o) ==
    (root = r /\ called_as = n /\ args = a /\ outcome \notin {Dispatching, Running})
        => outcome = o

\* tests/lib.rs subcommand_does_not_panic and dynamic_subcommand_example
C20_Examples ==
    /\ C20_Ends("SubCommandEnum", << >>, << Word("5") >>,
                EarlyExitErr(Other("no subcommand name")))
    /\ C20_Ends("SubCommandEnum", << t_fooey_word >>, << Word("5") >>,
                EarlyExitErr(Other("no subcommand matched")))
    /\ C20_Ends("MySubCommandEnum", << t_three >>, << Word("2") >>,
                Parsed([ty |-> "DynamicSubCommandImpl", got |-> << t_three, Word("2") >>]))
    /\ C20_Ends("OverlapEnum", << t_one >>, << Long("x"), Word("2") >>,
                Parsed([ty |-> "DynSubCommandOne", options |-> << 2 >>,
                        positionals |-> << >>, subcommand |-> << >>]))

C20_EnumDispatchYieldsOther == []C20_Examples /\ [][C20_Step]_vars

C20_Witness ==
    /\ root = "SubCommandEnum"
    /\ called_as = << t_fooey_word >>
    /\ args = << Word("5") >>
    /\ outcome = EarlyExitErr(Other("no subcommand matched"))

(***************************************************************************)
(* Rendering of MissingRequirements (argp/src/error.rs).  A rendered text  *)
(* is the sequence of the pieces written to the formatter: a line break,   *)
(* an indentation, a header or a name.  No name holds a line break.        *)
(***************************************************************************)
MaxItems == 2

NL == "\n"

Indent4 == "    "

NEWLINE_INDENT == << NL, Indent4 >>

PositionalHeader == "Required positional arguments not provided:"

OptionsHeader == "Required options not provided:"

SubcommandsHeader == "One of the following subcommands must be present:"

Headers == {PositionalHeader, OptionsHeader, SubcommandsHeader}

\* for x in names { f.write_str(NEWLINE_INDENT)?; f.write_str(x)?; }
RECURSIVE WriteItems(_)
WriteItems(names) ==
    IF names = << >> THEN << >>
    ELSE NEWLINE_INDENT \o << Head(names) >> \o WriteItems(Tail(names))

SubcommandItems(names) == WriteItems(<< "help" >> \o names)

\* impl Display for MissingRequirements
MissingRequirementsDisplay(req) ==
    LET positional_args ==
            IF req.positional_args # << >>
            THEN << PositionalHeader >> \o WriteItems(req.positional_args)
            ELSE << >>
        options ==
            IF req.options # << >>
            THEN (IF req.positional_args # << >> THEN << NL >> ELSE << >>)
                 \o << OptionsHeader >> \o WriteItems(req.options)
            ELSE << >>
        subcommands ==
            IF req.subcommands # << >>
            THEN (IF req.options # << >> THEN << NL >> ELSE << >>)
                 \o << SubcommandsHeader >> \o SubcommandItems(req.subcommands[1])
            ELSE << >>
    IN  positional_args \o options \o subcommands \o << NL >>

\* The names of the missing items of each category.
PositionalNames == {"a", "b"}

OptionNames == {"--x", "--y"}

SubcommandNamePool == {"one", "two"}

\* The values of MissingRequirements: each category empty or not, the
\* subcommand group absent or present.
MissingRequirementsValues ==
    [options : SeqsUpTo(OptionNames, MaxItems),
     subcommands : {<< >>} \cup {<< s >> : s \in SeqsUpTo(SubcommandNamePool, MaxItems)},
     positional_args : SeqsUpTo(PositionalNames, MaxItems)]

\* No parse is running while a function is applied on its own.
NoParse ==
    /\ root = "NoArgs"
    /\ called_as = << t_cmdname >>
    /\ args = << >>
    /\ stack = << >>
    /\ outcome = [kind |-> "None"]

DisplayInit ==
    /\ NoParse
    /\ given \in MissingRequirementsValues
    /\ result = << >>

\* The error is written out (to_string).
Display ==
    /\ result = << >>
    /\ result' = MissingRequirementsDisplay(given)
    /\ UNCHANGED <<root, called_as, args, stack, outcome, given>>

DisplayNext == Display

DisplaySpec == DisplayInit /\ [][DisplayNext]_vars

\* The positions of piece p in text t.
PositionsOf(t, p) == {i \in 1..Len(t) : t[i] = p}

\* Piece i of text t starts a line.
StartsLine(t, i) == i = 1 \/ t[i - 1] = NL

\* Piece i of text t is a name on a line of its own, indented by four spaces.
IndentedItem(t, i) ==
    /\ i > 2
    /\ t[i - 1] = Indent4
    /\ t[i - 2] = NL
    /\ (i = Len(t) \/ t[i + 1] = NL)

\* The pieces of text t that are names.
ItemPositions(t) == {i \in 1..Len(t) : t[i] \notin Headers \cup {NL, Indent4}}

\* Header h of text t is followed by exactly the items names, in order.
GroupIs(t, h, names) ==
    \E i \in PositionsOf(t, h) :
        /\ PositionsOf(t, h) = {i}
        /\ i + 3 * Len(names) <= Len(t)
        /\ \A k \in 1..Len(names) : t[i + 3 * k] = names[k]
        /\ \A j \in ItemPositions(t) :
               j > i + 3 * Len(names) =>
                   \E g \in 1..Len(t) : g > i /\ g < j /\ t[g] \in Headers

\* The categories of text t come in the order positionals, options,
\* subcommands, each present exactly when it has something to report.
CategoriesInOrder(t, req) ==
    /\ IF req.positional_args # << >>
       THEN GroupIs(t, PositionalHeader, req.positional_args)
       ELSE PositionsOf(t, PositionalHeader) = {}
    /\ IF req.options # << >>
       THEN GroupIs(t, OptionsHeader, req.options)
       ELSE PositionsOf(t, OptionsHeader) = {}
    /\ IF req.subcommands # << >>
       THEN GroupIs(t, SubcommandsHeader, << "help" >> \o req.subcommands[1])
       ELSE PositionsOf(t, SubcommandsHeader) = {}
    /\ \A i \in PositionsOf(t, PositionalHeader) :
           \A j \in PositionsOf(t, OptionsHeader) \cup PositionsOf(t, SubcommandsHeader) :
               i < j
    /\ \A i \in PositionsOf(t, OptionsHeader) :
           \A j \in PositionsOf(t, SubcommandsHeader) : i < j

\* C21: the rendering of MissingRequirements is well formed for every
\* combination of empty and non-empty categories: positionals, then options,
\* then the subcommand group led by `help`; every header starts a line, every
\* item is on a line of its own indented by four spaces, and the text ends
\* with a line break.
C21_RenderingWellFormed ==
    result # << >> =>
        /\ CategoriesInOrder(result, given)
        /\ \A i \in 1..Len(result) : result[i] \in Headers => StartsLine(result, i)
        /\ \A i \in ItemPositions(result) : IndentedItem(result, i)
        /\ result[Len(result)] = NL

(***************************************************************************)
(* The help message (argp/src/help.rs).  An option is listed by its long   *)
(* name, the synthetic help option by both of its names.                   *)
(***************************************************************************)
HELP_OPT == <<"-", "h", ",", " ", "-", "-", "h", "e", "l", "p">>

\* The options of a level as its HelpInfo declares them.
InfoOptions(ty) == [j \in 1..Len(Schemas[ty].slots) |-> Schemas[ty].slots[j].long]

\* Help::options
HelpOptions(help) ==
    help.global_options \o InfoOptions(help.ty) \o << HELP_OPT >>

\* The options that help at the top of stack stk has to list: the global ones
\* of every level below the top and all of the top level, as level and slot.
C22_Entries(stk) ==
    UNION {{<<i, j>> : j \in {k \in 1..Len(Schemas[stk[i].ty].slots) :
                                i = Len(stk) \/ Schemas[stk[i].ty].slots_global[k]}} :
           i \in 1..Len(stk)}

C22_Before(e1, e2) == e1[1] < e2[1] \/ (e1[1] = e2[1] /\ e1[2] < e2[2])

\* List l holds one entry for each of these options and no other, outer
\* levels first and in declared order, and after them the help option.
C22_ListsExactly(l, stk) ==
    LET E == C22_Entries(stk)
        n == Len(l)
    IN  /\ n = Cardinality(E) + 1
        /\ l[n] = HELP_OPT
        /\ \E pos \in [E -> 1..(n - 1)] :
               /\ \A e1, e2 \in E : C22_Before(e1, e2) => pos[e1] < pos[e2]
               /\ \A e \in E : l[pos[e]] = Schemas[stk[e[1]].ty].slots[e[2]].long

\* C22: help at a subcommand level lists in its Options section each global
\* option of every ancestor level exactly once, outermost first, then the
\* level's own options, and finally the synthetic -h, --help entry; the
\* non-global options of the ancestors are not listed.
C22_HelpListsGlobalsThenOwn ==
    [][(outcome = Running /\ outcome'.kind = "Help")
           => C22_ListsExactly(HelpOptions(outcome'), stack)]_vars

\* Help for `one two` lists --a, --b, --fooey and the help option, not --x.
C22_Witness ==
    /\ root = "TopLevel"
    /\ outcome.kind = "Help"
    /\ outcome.ty = "SubCommandTwo"
    /\ HelpOptions(outcome) = << Long("a"), Long("b"), t_fooey, HELP_OPT >>

(***************************************************************************)
(* The help writer (argp/src/help.rs).  A text is a sequence of            *)
(* characters; the placeholder {command_name} counts as one character      *)
(* until write_paragraphs replaces it.                                     *)
(***************************************************************************)
INDENT == <<" ", " ">>

SECTION_SEPARATOR == << NL >>

Placeholder == "{command_name}"

UsageTitle == <<"U", "s", "a", "g", "e", ":">>

ArgumentsTitle == <<"A", "r", "g", "u", "m", "e", "n", "t", "s", ":">>

OptionsTitle == <<"O", "p", "t", "i", "o", "n", "s", ":">>

CommandsTitle == <<"C", "o", "m", "m", "a", "n", "d", "s", ":">>

\* const HELP_OPT: OptionArgInfo
HELP_OPT_INFO ==
    [usage |-> << >>,
     description |->
         << HELP_OPT,
            <<"S", "h", "o", "w", " ", "t", "h", "i", "s", " ", "h", "e", "l", "p", " ",
              "m", "e", "s", "s", "a", "g", "e", " ", "a", "n", "d", " ", "e", "x", "i",
              "t", ".">> >>,
     global |-> TRUE]

chars_count(s) == Len(s)

Spaces(n) == [i \in 1..n |-> " "]

RECURSIVE Repeat(_, _)
Repeat(s, n) == IF n = 0 THEN << >> ELSE s \o Repeat(s, n - 1)

\* pad_string: the padded string, and whether anything was added.
pad_string(s, width) ==
    IF chars_count(s) < width
    THEN [s |-> s \o Spaces(width - chars_count(s)), padded |-> TRUE]
    ELSE [s |-> s, padded |-> FALSE]

\* str::split on one character: the pieces between its occurrences.
RECURSIVE split(_, _)
split(s, c) ==
    IF \A i \in 1..Len(s) : s[i] # c THEN << s >>
    ELSE LET i == CHOOSE k \in 1..Len(s) : s[k] = c /\ \A j \in 1..(k - 1) : s[j] # c
         IN  << SubSeq(s, 1, i - 1) >> \o split(SubSeq(s, i + 1, Len(s)), c)

\* text.replace("{command_name}", command_name)
RECURSIVE replace_command_name(_, _)
replace_command_name(text, command_name) ==
    IF text = << >> THEN << >>
    ELSE (IF Head(text) = Placeholder THEN command_name ELSE << Head(text) >>)
         \o replace_command_name(Tail(text), command_name)

NonEmpty(ss) == SelectSeq(ss, LAMBDA s : s # << >>)

\* HelpStyle::wrap_width, with the columns of the terminal if it has any.
wrap_width(style, term_cols) ==
    LET start == style.wrap_width_range[1]
        end == style.wrap_width_range[2]
    IN  IF start = end \/ term_cols = << >> THEN start
        ELSE IF term_cols[1] < start THEN start
        ELSE IF term_cols[1] > end THEN end
        ELSE term_cols[1]

\* HelpWriter::write_str, write_line
write_str(w, s) == [w EXCEPT !.buf = @ \o s]

write_line(w, line) == write_str(write_str(w, line), << NL >>)

\* HelpWriter::write_wrapped: the outer loop takes the first word of a line,
\* the inner loop appends the words that fit.  The line is empty afterwards.
RECURSIVE write_wrapped(_, _, _, _)
RECURSIVE write_wrapped_inner(_, _, _, _)
\* Faulty variant: a new line is never padded to its column.
write_wrapped_Unpadded(w, line, words, padding) ==
    IF words = << >> THEN write_line(w, line)
    ELSE write_wrapped_inner(w, line \o Head(words), Tail(words), padding)

write_wrapped(w, line, words, padding) ==
    IF words = << >> THEN write_line(w, line)
    ELSE LET padded == IF padding > 0 /\ line = << >>
                       THEN pad_string(line, padding).s
                       ELSE line
         IN  write_wrapped_inner(w, padded \o Head(words), Tail(words), padding)

write_wrapped_inner(w, line, words, padding) ==
    IF words = << >> THEN write_line(w, line)
    ELSE IF chars_count(line) + chars_count(Head(words)) + 1 > w.wrap_width
    THEN write_wrapped(write_line(w, line), << >>, words, padding)
    ELSE write_wrapped_inner(w, line \o << " " >> \o Head(words), Tail(words), padding)

\* HelpWriter::write_usage
write_usage(w, title, usage) ==
    write_wrapped(w, title \o << " " >>,
                  NonEmpty(<< w.command_name >> \o usage),
                  Len(title) + Len(w.command_name) + 2)

\* HelpWriter::write_paragraphs
RECURSIVE write_lines(_, _)
write_lines(w, lines) ==
    IF lines = << >> THEN w
    ELSE write_lines(write_wrapped(w, << >>, split(Head(lines), " "), 0), Tail(lines))

write_paragraphs(w, text) ==
    write_lines(write_str(w, SECTION_SEPARATOR),
                split(replace_command_name(text, w.command_name), NL))

\* HelpWriter::write_description
write_description(w, desc) ==
    LET line == INDENT \o desc[1]
        p == pad_string(line, w.description_indent)
    IN  IF desc[2] = << >> THEN write_line(w, line)
        ELSE IF p.padded
        THEN write_wrapped(w, p.s, split(desc[2], " "), w.description_indent)
        ELSE write_wrapped(write_line(w, line), << >>, split(desc[2], " "),
                           w.description_indent)

\* HelpWriter::write_section
RECURSIVE write_entries(_, _)
write_entries(w, descs) ==
    IF descs = << >> THEN w
    ELSE write_entries(write_description(write_str(w, w.blank_lines_spacing), Head(descs)),
                       Tail(descs))

\* Faulty variant: the entries with an empty name column are written too.
write_section_Unfiltered(w, title, descs) ==
    IF descs = << >> THEN w
    ELSE write_entries(
             write_description(write_line(write_str(w, SECTION_SEPARATOR), title),
                               Head(descs)),
             Tail(descs))

write_section(w, title, descs) ==
    LET shown == SelectSeq(descs, LAMBDA desc : desc[1] # << >>)
    IN  IF shown = << >> THEN w
        ELSE write_entries(
                 write_description(write_line(write_str(w, SECTION_SEPARATOR), title),
                                   Head(shown)),
                 Tail(shown))

\* Help::options
HelpOptionInfos(help) == help.global_options \o help.info.options \o << HELP_OPT_INFO >>

\* Help::subcommands
HelpSubcommands(help) ==
    IF help.info.commands = << >> THEN << >>
    ELSE help.info.commands[1].subcommands \o help.info.commands[1].dynamic_subcommands

Descriptions(infos) == [k \in 1..Len(infos) |-> infos[k].description]

Usages(infos) == [k \in 1..Len(infos) |-> infos[k].usage]

SeqMax(widths, none) ==
    IF widths = << >> THEN none
    ELSE CHOOSE m \in {widths[k] : k \in 1..Len(widths)} :
             \A k \in 1..Len(widths) : widths[k] <= m

\* help.rs 183-202.  The code computes the upper bound in f32; below 53
\* columns that equals the integer quotient for every percentage.
description_indent(help, style, width) ==
    IF style.description_indent < 0
    THEN LET percent == 0 - style.description_indent
             max_indent == (width * percent) \div 100
             options_and_args == HelpOptionInfos(help) \o help.info.positionals
             subcommands == HelpSubcommands(help)
             left_column == [k \in 1..Len(options_and_args) |->
                                options_and_args[k].description[1]]
                            \o [k \in 1..Len(subcommands) |-> subcommands[k].name]
             widths == [k \in 1..Len(left_column) |->
                           Len(INDENT) + chars_count(left_column[k]) + 2]
             best == SeqMax(SelectSeq(widths, LAMBDA x : x <= max_indent), 8)
         IN  IF best < width THEN best ELSE width
    ELSE IF style.description_indent < width THEN style.description_indent ELSE width

\* Help::generate
generate(help, style, term_cols) ==
    LET info == help.info
        options == HelpOptionInfos(help)
        options_and_args == options \o info.positionals
        subcommands == HelpSubcommands(help)
        width == wrap_width(style, term_cols)
        w0 == [blank_lines_spacing |-> Repeat(<< NL >>, style.blank_lines_spacing),
               buf |-> << >>,
               command_name |-> help.command_name,
               description_indent |-> description_indent(help, style, width),
               wrap_width |-> width]
        subcommands_usage ==
            IF info.commands = << >> THEN << >> ELSE split(info.commands[1].usage, " ")
        w1 == IF style.short_usage
              THEN write_usage(w0, UsageTitle,
                               << <<"[", "o", "p", "t", "i", "o", "n", "s", "]">> >>
                               \o Usages(info.positionals) \o subcommands_usage)
              ELSE write_usage(w0, UsageTitle, Usages(options_and_args) \o subcommands_usage)
        w2 == write_paragraphs(w1, info.description)
        w3 == IF info.positionals # << >>
              THEN write_section(w2, ArgumentsTitle, Descriptions(info.positionals))
              ELSE w2
        w4 == write_section(w3, OptionsTitle, Descriptions(options))
        w5 == IF subcommands # << >>
              THEN write_section(w4, CommandsTitle,
                                 [k \in 1..Len(subcommands) |->
                                     << subcommands[k].name, subcommands[k].description >>])
              ELSE w4
        w6 == IF info.footer # << >> THEN write_paragraphs(w5, info.footer) ELSE w5
    IN  w6.buf

(***************************************************************************)
(* The values help is generated from.                                      *)
(***************************************************************************)
MaxWords == 3

MaxNameLen == 12

LongWord == <<"c", "c", "c", "c", "c", "c", "c", "c", "c", "c">>

Words == {<< >>, <<"a", "a">>, <<"b", "b", "b", "b">>, LongWord}

\* The texts of up to n words, separated by a space or a line break: among
\* them the empty text, texts with two spaces in a row and texts that end
\* with a space or a line break.
RECURSIVE Texts(_)
Texts(n) ==
    IF n <= 1 THEN Words
    ELSE Texts(n - 1)
         \cup {t \o sep \o wd : t \in Texts(n - 1), sep \in {<<" ">>, << NL >>}, wd \in Words}

SomeText == <<"a", "a", " ", "b", "b", "b", "b", " ", "a", "a">>

\* A text that names the command.
NamingText == <<"a", "a", " ", Placeholder>>

\* Positionals: an ordinary one and a greedy one, which has an empty name
\* column and an empty description.
FileArg ==
    [usage |-> <<"<", "f", ">">>, description |-> << <<"f">>, SomeText >>, global |-> FALSE]

GreedyArg ==
    [usage |-> <<"[", "r", ".", ".", ".", "]">>, description |-> << << >>, << >> >>,
     global |-> FALSE]

PositionalLists == {<< >>, << FileArg >>, << GreedyArg >>, << FileArg, GreedyArg >>}

OptionX ==
    [usage |-> <<"[", "-", "-", "x", "]">>,
     description |-> << <<"-", "-", "x">>, <<"a", "a">> >>, global |-> FALSE]

OptionLongName ==
    [usage |-> <<"[", "-", "-", "l", "o", "n", "g", "-", "n", "a", "m", "e", "]">>,
     description |-> << <<"-", "-", "l", "o", "n", "g", "-", "n", "a", "m", "e">>,
                        SomeText \o <<" ">> \o SomeText >>,
     global |-> FALSE]

OptionLists == {<< >>, << OptionX >>, << OptionX, OptionLongName >>}

OptionG ==
    [usage |-> <<"[", "-", "g", "]">>,
     description |-> << <<"-", "g", ",", " ", "-", "-", "g">>, << >> >>, global |-> TRUE]

GlobalOptionLists == {<< >>, << OptionG >>}

CommandOne == [name |-> t_one, description |-> SomeText]

CommandTwo == [name |-> t_two, description |-> <<"b", "b", "b", "b">>]

CommandsUsage ==
    <<"<", "c", "o", "m", "m", "a", "n", "d", ">", " ", "[", "<", "a", "r", "g", "s", ">", "]">>

\* No subcommand field, or one whose enum has static and dynamic commands.
CommandsInfos ==
    {<< >>}
    \cup {<< [usage |-> CommandsUsage, subcommands |-> s, dynamic_subcommands |-> d] >> :
            s \in {<< >>, << CommandOne >>}, d \in {<< >>, << CommandTwo >>}}

HelpInfos ==
    [description : {<< >>, NamingText},
     positionals : PositionalLists,
     options : OptionLists,
     commands : CommandsInfos,
     footer : {<< >>, SomeText}]

BaseInfo ==
    [description |-> SomeText,
     positionals |-> << FileArg >>,
     options |-> << OptionX >>,
     commands |-> << >>,
     footer |-> << >>]

HelpOf(info, globals) ==
    [info |-> info, command_name |-> <<"c", "m", "d">>, global_options |-> globals]

\* The wrap width range of a style with the columns of the terminal: a fixed
\* width, and a range with no terminal, with a terminal inside the range,
\* a wider one and a narrower one.
WidthCases ==
    {[range |-> <<16, 16>>, term_cols |-> << >>],
     [range |-> <<16, 24>>, term_cols |-> << >>],
     [range |-> <<16, 24>>, term_cols |-> << 20 >>],
     [range |-> <<16, 24>>, term_cols |-> << 30 >>],
     [range |-> <<16, 24>>, term_cols |-> << 12 >>]}

StyleOf(indent, spacing, short, range) ==
    [blank_lines_spacing |-> spacing, description_indent |-> indent,
     short_usage |-> short, wrap_width_range |-> range]

GenerateCall(help, style, term_cols) ==
    [help |-> help, style |-> style, term_cols |-> term_cols]

\* Every shape of the sections under the percentage styles and a fixed one.
StructureCalls ==
    {GenerateCall(HelpOf(info, g), StyleOf(indent, 0, FALSE, wc.range), wc.term_cols) :
        info \in HelpInfos, g \in GlobalOptionLists, indent \in {-40, -60, 6},
        wc \in WidthCases}

\* Every style on one schema.
StyleCalls ==
    {GenerateCall(HelpOf([BaseInfo EXCEPT !.options = << OptionX, OptionLongName >>], << >>),
                  StyleOf(indent, spacing, short, wc.range), wc.term_cols) :
        indent \in {-128, -60, -40, -10, 0, 6, 30}, spacing \in {0, 1},
        short \in BOOLEAN, wc \in WidthCases}

TextStyles == {StyleOf(indent, 0, FALSE, <<16, 16>>) : indent \in {-40, -60, 6}}

\* Every text as the description, as the footer, and as the description of
\* an option and of the last command.
TextCalls(n) ==
    {GenerateCall(HelpOf(info, << >>), style, << >>) :
        info \in {[BaseInfo EXCEPT !.description = t] : t \in Texts(n)}
                 \cup {[BaseInfo EXCEPT !.footer = t] : t \in Texts(n)}
                 \cup {[BaseInfo EXCEPT !.options =
                           << [OptionX EXCEPT !.description = << <<"-", "-", "x">>, t >>] >>] :
                       t \in Texts(n)},
        style \in TextStyles}

\* Every length of a name column.
NameCalls(n) ==
    {GenerateCall(HelpOf([BaseInfo EXCEPT !.positionals =
                             << [FileArg EXCEPT !.description =
                                    << [i \in 1..k |-> "n"], SomeText >>] >>],
                         << >>),
                  StyleOf(indent, 0, FALSE, <<16, 16>>), << >>) :
        k \in 0..n, indent \in {-40, -60, -100, 6}}

GenerateCalls == StructureCalls \cup StyleCalls \cup TextCalls(MaxWords) \cup NameCalls(MaxNameLen)

HelpInit ==
    /\ NoParse
    /\ given \in GenerateCalls
    /\ result = << >>

\* help.generate(&style)
Generate ==
    /\ result = << >>
    /\ result' = generate(given.help, given.style, given.term_cols)
    /\ UNCHANGED <<root, called_as, args, stack, outcome, given>>

HelpNext == Generate

HelpSpec == HelpInit /\ [][HelpNext]_vars

\* The lines of a text: what stands before each of its line breaks, and
\* last what stands after the final one.
TextLines(t) == split(t, NL)

(***************************************************************************)
(* Vocabulary of the properties of a rendered help text.                   *)
(***************************************************************************)
IsPrefix(p, s) == Len(p) <= Len(s) /\ SubSeq(s, 1, Len(p)) = p

\* The lines of list l that are exactly the heading title.
HeadingPositions(l, title) == {i \in 1..Len(l) : l[i] = title}

Titles == {ArgumentsTitle, OptionsTitle, CommandsTitle}

\* A line that starts an entry of a section: the indentation, then a name.
EntryStart(line) == Len(line) > 2 /\ IsPrefix(INDENT, line) /\ line[3] # " "

EntryStarts(l) == {i \in 1..Len(l) : EntryStart(l[i])}

NamedPositionals(help) ==
    SelectSeq(help.info.positionals, LAMBDA p : p.description[1] # << >>)

\* C23, the headings: Arguments appears exactly when some positional has a
\* non-empty name column, Options always, Commands exactly when there is a
\* static or dynamic subcommand; they come in this order after the usage
\* line, and each follows a blank line.
C23_Headings(l, help) ==
    /\ IsPrefix(UsageTitle \o <<" ">>, l[1])
    /\ Cardinality(HeadingPositions(l, ArgumentsTitle))
           = (IF NamedPositionals(help) # << >> THEN 1 ELSE 0)
    /\ Cardinality(HeadingPositions(l, OptionsTitle)) = 1
    /\ Cardinality(HeadingPositions(l, CommandsTitle))
           = (IF HelpSubcommands(help) # << >> THEN 1 ELSE 0)
    /\ \A a \in HeadingPositions(l, ArgumentsTitle) :
           \A o \in HeadingPositions(l, OptionsTitle) : a < o
    /\ \A o \in HeadingPositions(l, OptionsTitle) :
           \A c \in HeadingPositions(l, CommandsTitle) : o < c
    /\ \A i \in 1..Len(l) : l[i] \in Titles => (i > 1 /\ l[i - 1] = << >>)

\* C23, the parts around the sections, for texts of one line that do not
\* start with a space: the description stands between the usage and the
\* first heading, the entries are those of the named positionals, of the
\* options with the help entry last, and of the subcommands, and the footer
\* stands after them exactly when it is not empty.
C23_Parts(l, help) ==
    LET first == CHOOSE i \in 1..Len(l) : l[i] \in Titles /\ \A j \in 1..(i - 1) : l[j] \notin Titles
        options == CHOOSE i \in 1..Len(l) : l[i] = OptionsTitle
        blank == CHOOSE i \in 1..Len(l) : l[i] = << >> /\ \A j \in 1..(i - 1) : l[j] # << >>
        last_of_options ==
            CHOOSE i \in EntryStarts(l) :
                /\ i > options
                /\ \A j \in EntryStarts(l) :
                       j > i => \E c \in HeadingPositions(l, CommandsTitle) : c < j
                /\ \A c \in HeadingPositions(l, CommandsTitle) : i < c
        loose == {i \in 1..Len(l) : i > options /\ l[i] # << >> /\ l[i] \notin Titles
                                     /\ ~IsPrefix(INDENT, l[i])}
    IN  /\ SubSeq(l, blank, first - 1)
               = << << >>, replace_command_name(help.info.description, help.command_name),
                    << >> >>
        /\ Cardinality(EntryStarts(l))
               = Len(NamedPositionals(help)) + Len(HelpOptionInfos(help))
                 + Len(HelpSubcommands(help))
        /\ IsPrefix(INDENT \o HELP_OPT, l[last_of_options])
        /\ IF help.info.footer = << >> THEN loose = {}
           ELSE /\ loose = {Len(l) - 1}
                /\ l[Len(l) - 1] = help.info.footer
                /\ l[Len(l) - 2] = << >>

\* C23: rendered help has its parts in the fixed order usage, description,
\* Arguments, Options, Commands, footer; the Arguments heading appears
\* exactly when a positional has a non-empty name column (entries with an
\* empty one are left out), Options always appears and ends with -h, --help,
\* Commands appears exactly when a static or dynamic subcommand exists, and
\* the footer exactly when it is not empty.
C23_PartsInFixedOrder ==
    result # << >> =>
        /\ C23_Headings(TextLines(result), given.help)
        /\ given \in StructureCalls => C23_Parts(TextLines(result), given.help)

\* Only a greedy positional, only a dynamic subcommand, and a footer: no
\* Arguments heading, a Commands heading, the footer last.
C23_Witness ==
    /\ result # << >>
    /\ given \in StructureCalls
    /\ given.help.info.positionals = << GreedyArg >>
    /\ HelpSubcommands(given.help) = << CommandTwo >>
    /\ given.help.info.footer # << >>
    /\ HeadingPositions(TextLines(result), ArgumentsTitle) = {}
    /\ HeadingPositions(TextLines(result), CommandsTitle) # {}

\* The wrap width and the description column of a call.
WidthOf(call) == wrap_width(call.style, call.term_cols)

ColumnOf(call) == description_indent(call.help, call.style, WidthOf(call))

\* The words of a text: what stands between its spaces and line breaks.
RECURSIVE WordsOfLines(_)
WordsOfLines(l) ==
    IF l = << >> THEN << >> ELSE NonEmpty(split(Head(l), " ")) \o WordsOfLines(Tail(l))

Tokens(t) == WordsOfLines(split(t, NL))

RECURSIVE TrimEnd(_)
TrimEnd(s) ==
    IF s # << >> /\ s[Len(s)] = " " THEN TrimEnd(SubSeq(s, 1, Len(s) - 1)) ELSE s

\* What stands on a line before its last word.
BeforeLastWord(line) ==
    LET spaces == {i \in 1..Len(line) : line[i] = " "}
    IN  IF spaces = {} THEN << >>
        ELSE SubSeq(line, 1, CHOOSE i \in spaces : \A j \in spaces : j <= i)

\* The entries of the sections of a help message, name and description.
Entries(help) ==
    Descriptions(NamedPositionals(help)) \o Descriptions(HelpOptionInfos(help))
    \o [k \in 1..Len(HelpSubcommands(help)) |->
           << HelpSubcommands(help)[k].name, HelpSubcommands(help)[k].description >>]

\* A line that is too long holds one word only after its indentation, after
\* the usage title or after the name column of its entry.
C24_SingleWord(line, help) ==
    LET before == TrimEnd(BeforeLastWord(line))
    IN  \/ before = << >>
        \/ before = UsageTitle
        \/ \E k \in 1..Len(Entries(help)) : before = INDENT \o Entries(help)[k][1]

\* A text without a line break, and one that in addition has no empty word.
OneParagraph(t) == \A i \in 1..Len(t) : t[i] # NL

CleanText(t) == OneParagraph(t) /\ (t = << >> \/ \A k \in 1..Len(split(t, " ")) : split(t, " ")[k] # << >>)

\* The lines of list l from the heading at position h up to the next blank
\* line.
SectionLines(l, h) ==
    {i \in (h + 1)..Len(l) : \A j \in (h + 1)..i : l[j] # << >>}

\* The lines of the entries that do not start an entry begin at the
\* description column.
C24_Continuations(l, call) ==
    LET column == ColumnOf(call)
        entries == Entries(call.help)
        clean == \A k \in 1..Len(entries) : CleanText(entries[k][2])
    IN  \A h \in 1..Len(l) :
            l[h] \in Titles =>
                \A i \in SectionLines(l, h) :
                    ~EntryStart(l[i]) =>
                        /\ IsPrefix(Spaces(column), l[i])
                        /\ clean => (Len(l[i]) > column /\ l[i][column + 1] # " ")

C25_OneTrailingNewline ==
    result # << >> =>
        LET l == TextLines(result)
        IN  /\ Len(l) >= 2
            /\ l[Len(l)] = << >>
            /\ l[Len(l) - 1] # << >>

\* The name columns of a help message: those of the positionals (the empty
\* ones too), of the options with the help entry, and of the subcommands.
NameColumns(help) ==
    {help.info.positionals[k].description[1] : k \in 1..Len(help.info.positionals)}
    \cup {HelpOptionInfos(help)[k].description[1] : k \in 1..Len(HelpOptionInfos(help))}
    \cup {HelpSubcommands(help)[k].name : k \in 1..Len(HelpSubcommands(help))}

PaddedWidth(name) == 2 + Len(name) + 2

\* The upper bound of the description column: the percentage of the style
\* of the wrap width.
C26_UpperBound(call) == (WidthOf(call) * (0 - call.style.description_indent)) \div 100

\* The largest padded width within the upper bound, and 8 at least.
C26_Column(call) ==
    LET fitting == {PaddedWidth(n) : n \in NameColumns(call.help)} \cap 0..C26_UpperBound(call)
    IN  CHOOSE c \in fitting \cup {8} : \A x \in fitting \cup {8} : x <= c

\* The description of the entry starts at column c: on the line of the name
\* if the name ends before the column, on the next line otherwise.
C26_PlacedAt(l, entry, c) ==
    \E i \in 1..Len(l) :
        IF Len(INDENT \o entry[1]) < c
        THEN /\ IsPrefix(INDENT \o entry[1] \o Spaces(c - Len(INDENT \o entry[1])), l[i])
             /\ Len(l[i]) > c
             /\ l[i][c + 1] # " "
        ELSE /\ l[i] = INDENT \o entry[1]
             /\ i < Len(l)
             /\ IsPrefix(Spaces(c), l[i + 1])
             /\ Len(l[i + 1]) > c
             /\ l[i + 1][c + 1] # " "

\* C26: all entries of all sections share one description column; under a
\* percentage style it is the largest padded width (2 + name length + 2) of
\* the name columns that does not exceed the upper bound, and never less than
\* 8; a name that reaches the column has its description on the next line.
C26_OneDescriptionColumn ==
    (result # << >> /\ given.style.description_indent < 0) =>
        \A k \in 1..Len(Entries(given.help)) :
            (Entries(given.help)[k][2] # << >> /\ CleanText(Entries(given.help)[k][2]))
                => C26_PlacedAt(TextLines(result), Entries(given.help)[k], C26_Column(given))

\* The positional of frame f that the next bare token belongs to: the first
\* one without a value, else the last one if it is repeating, else none (0).
C27_Target(f) ==
    LET sch == Schemas[f.ty]
        n == Len(sch.positionals)
        unfilled == {i \in 1..n : f.positionals[i] = << >>}
    IN  IF unfilled # {} THEN CHOOSE i \in unfilled : \A j \in unfilled : i <= j
        ELSE IF last_is_repeating(sch) THEN n
        ELSE 0

\* C27: a bare token that names no subcommand goes to the positionals in
\* declared order, one token per non-repeating positional; when all are
\* filled and the last one is not repeating, or none is declared, the token
\* fails with UnknownArgument carrying exactly that token.
C27_BareTokensFillInOrder ==
    [][At("Positional") =>
          LET f == Top(stack)
              tok == Head(f.remaining_args)
              j == C27_Target(f)
          IN  IF j = 0 THEN outcome' = EarlyExitErr(UnknownArgument(tok))
              ELSE \/ outcome'.kind = "Err" /\ outcome'.error.err = "ParseArgument"
                   \/ /\ outcome' = Running
                      /\ Len(stack') = Len(stack)
                      /\ Top(stack').remaining_args = Tail(f.remaining_args)
                      /\ Top(stack').positionals[j]
                             = Append(f.positionals[j],
                                      FromOsArgValue(Schemas[f.ty].positionals[j].ty, tok).val)
                      /\ \A i \in 1..Len(f.positionals) :
                             i # j => Top(stack').positionals[i] = f.positionals[i]]_vars

\* `5 6 7` against the two positionals a and b.
C27_Witness ==
    /\ root = "LastRequired"
    /\ args = << Word("5"), Word("6"), Word("7") >>
    /\ outcome = EarlyExitErr(UnknownArgument(Word("7")))

\* The slots that option token tok can name at the top of stack stk: those
\* of the top level and the global ones of the levels below it.
C28_Visible(stk, tok) ==
    UNION {{<<lvl, e[2]>> :
               e \in {x \in {Schemas[stk[lvl].ty].arg_to_slot[k] :
                                k \in 1..Len(Schemas[stk[lvl].ty].arg_to_slot)} :
                         /\ x[1] = tok
                         /\ (lvl = Len(stk) \/ Schemas[stk[lvl].ty].slots_global[x[2]])}} :
           lvl \in 1..Len(stk)}

\* Token tok names a value-taking option and nothing else.
C28_TakesValue(stk, tok) ==
    /\ C28_Visible(stk, tok) # {}
    /\ \A s \in C28_Visible(stk, tok) : Schemas[stk[s[1]].ty].slots[s[2]].kind = "Value"

\* C28: a value-taking option given as a token of its own consumes exactly
\* the one token that follows it as its value, whatever that token looks
\* like, and fails with MissingArgValue carrying the option token as typed
\* when no token follows.
C28_OptionTakesNextToken ==
    [][(At("SingleOption")
        /\ C28_TakesValue(stack, to_str(Head(Top(stack).remaining_args))))
          => LET f == Top(stack)
                 tok == to_str(Head(f.remaining_args))
                 rest == Tail(f.remaining_args)
             IN  IF rest = << >> THEN outcome' = EarlyExitErr(MissingArgValue(tok))
                 ELSE \/ /\ outcome'.kind = "Err"
                         /\ \/ outcome'.error.err = "DuplicateOption"
                            \/ /\ outcome'.error.err = "ParseArgument"
                               /\ outcome'.error.value = Head(rest)
                      \/ /\ outcome' = Running
                         /\ Len(stack') = Len(stack)
                         /\ Top(stack').remaining_args = Tail(rest)
                         /\ \E s \in C28_Visible(stack, tok) :
                                LET d == Schemas[stack[s[1]].ty].slots[s[2]]
                                IN  stack'[s[1]].slots[s[2]]
                                        = Append(stack[s[1]].slots[s[2]],
                                                 FromOsArgValue(d.ty, Head(rest)).val)]_vars

\* `--foo --help`: the help flag is the value of --foo.
C28_Witness ==
    /\ root = "OneOption"
    /\ args = << t_foo, t_help_long >>
    /\ outcome.kind = "Ok"
    /\ outcome.value.options[1] = t_help_long

\* ---------------------------------------------------------------------------
\* Repeated switches (parser.rs 412-446).  A command line long enough to fill
\* a u8 counter is read one token at a time: each token is handed to the parse
\* loop as the next of remaining_args, and the occurrences handed over so far
\* are counted next to the parser's own state.
\* ---------------------------------------------------------------------------

\* How many times one switch is given on a command line.
MaxOccurrences == 258

MaxBoolOccurrences == 2

SwitchTokens ==
    {Short("v"), Long("v"), Short("f"), Long("f"),
     <<"-", "v", "v">>, <<"-", "v", "f">>, <<"-", "f", "v">>}

\* The occurrences of the switch with short name c in token t.
Occurrences(t, c) ==
    IF t = Long(c) THEN 1
    ELSE IF Len(t) >= 2 /\ t[2] = "-" THEN 0
    ELSE Cardinality({i \in 2..Len(t) : t[i] = c})

SwitchInit ==
    /\ root = "SwitchRepeating"
    /\ called_as = << t_cmdname >>
    /\ args = << >>
    /\ stack = << NewFrame(root, called_as, << >>) >>
    /\ outcome = Running
    /\ given = << >>
    /\ result = << 0, 0 >>

\* The next token of the command line goes through one turn of the parse loop.
NextSwitch ==
    \E t \in SwitchTokens :
        /\ outcome = Running
        /\ result[1] + Occurrences(t, "v") <= MaxOccurrences
        /\ result[2] + Occurrences(t, "f") <= MaxBoolOccurrences
        /\ LET r == StepOf([stack EXCEPT ![1].remaining_args = << t >>])
           IN  stack' = r.stack /\ outcome' = r.outcome
        /\ given' = t
        /\ result' = << result[1] + Occurrences(t, "v"),
                        result[2] + Occurrences(t, "f") >>
        /\ UNCHANGED <<root, called_as, args>>

SwitchNext == NextSwitch \/ Finish

SwitchSpec == SwitchInit /\ [][SwitchNext]_vars

\* The values of the two switches: in the parser's slots while it runs, in the
\* parsed struct once it has finished.
SwitchValues ==
    IF outcome = Running THEN stack[1].slots
    ELSE IF outcome.kind = "Ok" THEN outcome.value.options
    ELSE << >>

\* C29: an integer switch holds the number of times it was given, short or
\* long, alone or in a bundle, and stays at the largest value of its type
\* once it has reached it (255 for u8); a bool switch is true exactly when it
\* was given at least once; giving a switch again is never an error.
C29_SwitchCountsAndSaturates ==
    /\ outcome.kind \in {"Running", "Ok"}
    /\ Len(SwitchValues) = 2
    /\ SwitchValues[1] = (IF result[1] <= 255 THEN result[1] ELSE 255)
    /\ SwitchValues[2] = (result[2] >= 1)

\* The counter was given more often than a u8 can count, last in a bundle,
\* and the parse has finished.
C29_Witness ==
    /\ outcome.kind = "Ok"
    /\ result[1] > 255
    /\ result[2] = 2
    /\ given = <<"-", "f", "v">>
    /\ outcome.value.options[1] = 255
    /\ outcome.value.options[2] = TRUE

\* ---------------------------------------------------------------------------
\* The checks the derive makes on the fields of a struct
\* (argp_derive/src/lib.rs, argp_derive/src/parse_attrs.rs).  A field is its
\* kind, its optionality and whether it carries the `greedy` attribute.
\* ---------------------------------------------------------------------------

MaxFields == 3

Optionalities == {"None", "Optional", "Repeating", "Defaulted"}

\* Positional fields of every optionality, and option fields, each with and
\* without `greedy`.
StructFields ==
    [kind : {"Positional"}, optionality : Optionalities, greedy : BOOLEAN]
      \cup [kind : {"Option"}, optionality : {"None"}, greedy : BOOLEAN]

RECURSIVE FieldLists(_)
FieldLists(n) ==
    IF n = 0 THEN {<< >>}
    ELSE FieldLists(n - 1)
           \cup {Append(fs, f) : fs \in {l \in FieldLists(n - 1) : Len(l) = n - 1},
                                 f \in StructFields}

\* The messages are kept without their backquotes.
OnlyLastMayBeOptional == "Only the last positional argument may be Option, Vec, or defaulted."

LaterDeclaredHere == "Later positional argument declared here."

GreedyOnlyOnPositional == "greedy may only be specified on #[argp(positional)] fields"

\* Optionality::is_required
is_required(optionality) == optionality = "None"

\* FieldAttrs::parse, the check of `greedy` against the kind of the field.
RECURSIVE FieldAttrs_parse(_)
FieldAttrs_parse(fields) ==
    IF fields = << >> THEN << >>
    ELSE LET field == Head(fields)
         IN  (IF field.greedy /\ field.kind # "Positional"
              THEN << GreedyOnlyOnPositional >> ELSE << >>)
               \o FieldAttrs_parse(Tail(fields))

\* The loop of ensure_only_last_positional_is_optional from field i on;
\* first_non_required tells whether a non-required positional was seen.
RECURSIVE OnlyLastLoop(_, _, _)
OnlyLastLoop(fields, i, first_non_required) ==
    IF i > Len(fields) THEN << >>
    ELSE IF fields[i].kind = "Positional"
    THEN IF first_non_required
         THEN << OnlyLastMayBeOptional, LaterDeclaredHere >>
         ELSE OnlyLastLoop(fields, i + 1, ~is_required(fields[i].optionality))
    ELSE OnlyLastLoop(fields, i + 1, first_non_required)

ensure_only_last_positional_is_optional(fields) == OnlyLastLoop(fields, 1, FALSE)

positional_fields(fields) == SelectSeq(fields, LAMBDA field : field.kind = "Positional")

last_positional_is_repeating(fields) ==
    LET p == positional_fields(fields)
    IN  IF p = << >> THEN FALSE ELSE p[Len(p)].optionality = "Repeating"

last_positional_is_greedy(fields) ==
    LET p == positional_fields(fields)
    IN  IF p = << >> THEN FALSE
        ELSE p[Len(p)].kind = "Positional" /\ p[Len(p)].greedy

\* The derive on a struct: the errors it reports, or with none the two facts
\* about the last positional that the generated from_args hands the parser.
impl_from_args_struct(fields) ==
    LET errors == FieldAttrs_parse(fields)
                    \o ensure_only_last_positional_is_optional(fields)
    IN  IF errors # << >> THEN << "Rejected", errors >>
        ELSE << "Accepted", last_positional_is_repeating(fields),
                last_positional_is_greedy(fields) >>

DeriveInit ==
    /\ NoParse
    /\ given \in FieldLists(MaxFields)
    /\ result = << >>

\* The derive macro runs on the struct.
Derive ==
    /\ result = << >>
    /\ result' = impl_from_args_struct(given)
    /\ UNCHANGED <<root, called_as, args, stack, outcome, given>>

DeriveNext == Derive

DeriveSpec == DeriveInit /\ [][DeriveNext]_vars

\* The positions of the positionals of fields that satisfy Test.
PositionalsWith(fields, Test(_)) ==
    {i \in 1..Len(positional_fields(fields)) : Test(positional_fields(fields)[i])}

OnlyLast(fields, Test(_)) ==
    PositionalsWith(fields, Test) \subseteq {Len(positional_fields(fields))}

NonRequiredOnlyLast(fields) == OnlyLast(fields, LAMBDA p : p.optionality # "None")

GreedyOnlyLast(fields) == OnlyLast(fields, LAMBDA p : p.greedy)

\* C30: a struct is accepted only if at most one of its positionals is
\* non-required (optional, repeating or defaulted) and that one is declared
\* last, and at most one is greedy and that one is declared last; every other
\* struct is rejected when it is defined.
C30_OnlyLastOptionalAndGreedy ==
    (result # << >> /\ result[1] = "Accepted")
        => NonRequiredOnlyLast(given) /\ GreedyOnlyLast(given)

\* The part of C30 the derive does enforce: an accepted struct has its only
\* non-required positional last.
C30_OnlyLastOptional ==
    (result # << >> /\ result[1] = "Accepted") => NonRequiredOnlyLast(given)

\* The struct of tests/ui/conflicting-tails/positional-and-greedy.rs, a
\* repeating positional followed by a greedy repeating one, is rejected.
C30_ConflictingTailsRejected ==
    (/\ result # << >>
     /\ given = << [kind |-> "Positional", optionality |-> "Repeating", greedy |-> FALSE],
                   [kind |-> "Positional", optionality |-> "Repeating", greedy |-> TRUE] >>)
        => result = << "Rejected", << OnlyLastMayBeOptional, LaterDeclaredHere >> >>

(***************************************************************************)
(* C31.  Subcommand names are tested before the positionals.               *)
(***************************************************************************)
\* The next token of the level on top is read as a bare value: it is neither
\* a help keyword nor a dash token while the options are scanned.
BareNext ==
    /\ outcome = Running
    /\ ~Top(stack).escaped
    /\ Top(stack).remaining_args # << >>
    /\ LET f == Top(stack)
           next_arg == to_str(Head(f.remaining_args))
       IN  \/ f.options_ended
           \/ ~IsHelpArg(next_arg) /\ ~starts_with_dash(next_arg)

\* The position of the next token among the subcommand names of the level on
\* top, or 0.
NamedCommand == MatchSubCommand(Top(stack), to_str(Head(Top(stack).remaining_args)))

\* The step starts the parse of the static subcommand the next token names,
\* on the tokens after it, and stores nothing at the level itself.
DispatchesNamed ==
    LET f == Top(stack)
        sub == Schemas[f.ty].subcommand[1]
        lvl == Len(stack)
    IN  /\ outcome' = Running
        /\ Len(stack') = lvl + 1
        /\ stack'[lvl + 1].ty = sub.commands[NamedCommand]
        /\ stack'[lvl + 1].remaining_args
               = prepend_help(f.help_requested, Tail(f.remaining_args))
        /\ stack'[lvl].positionals = f.positionals
        /\ stack'[lvl].positional_index = f.positional_index
        /\ stack'[lvl].remaining_args = Tail(f.remaining_args)

C31_Missing_a ==
    EarlyExitErr(MissingRequirementsError(
        [options |-> << >>, subcommands |-> << >>, positional_args |-> << Word("a") >>]))

\* C31: at a level with a subcommand a bare token that names a (static)
\* subcommand is dispatched to it and never stored in a positional, also
\* while required positionals are unfilled and after `--`; for WithSubcommand
\* the tokens `a a a` end with the positional `a` of the root reported missing.
C31_SubcommandBeforePositional ==
    [][/\ (BareNext /\ NamedCommand # 0 /\ StaticOnly) => DispatchesNamed
       /\ (/\ root = "WithSubcommand"
           /\ args = << Word("a"), Word("a"), Word("a") >>
           /\ outcome'.kind # "Running")
              => outcome' = C31_Missing_a]_vars

\* WithSubcommand has dispatched `a` after `--` with its required positional
\* unfilled.
C31_Witness ==
    /\ root = "WithSubcommand"
    /\ Len(stack) = 2
    /\ stack[1].options_ended
    /\ stack[1].positionals[1] = << >>
    /\ stack[2].ty = "Subcommand"

(***************************************************************************)
(* C32.  The search of the ancestors for a global option.                  *)
(***************************************************************************)
C32_Arg == to_str(Head(Top(stack).remaining_args))

\* The entries of the table of type ty that name arg.
C32_Entries(ty, arg) ==
    {k \in 1..Len(Schemas[ty].arg_to_slot) : Schemas[ty].arg_to_slot[k][1] = arg}

\* The slots of type ty that arg names and that are global.
C32_GlobalSlots(ty, arg) ==
    {Schemas[ty].arg_to_slot[k][2] : k \in
        {j \in C32_Entries(ty, arg) : Schemas[ty].slots_global[Schemas[ty].arg_to_slot[j][2]]}}

\* The ancestors of the level on top that declare the next token as global.
C32_Claimants == {i \in 1..(Depth - 1) : C32_GlobalSlots(stack[i].ty, C32_Arg) # {}}

C32_Nearest == CHOOSE i \in C32_Claimants : \A j \in C32_Claimants : j <= i

\* The next token is a single option that the level on top does not declare.
C32_AtForeignOption ==
    /\ outcome = Running
    /\ Classify(stack) = "SingleOption"
    /\ C32_Entries(Top(stack).ty, C32_Arg) = {}

\* The step filled slot p of level n and nothing else.
C32_FilledOnly(n, p) ==
    /\ Len(stack') = Depth
    /\ \A i \in 1..Depth : i # n => SlotsUnchanged(i)
    /\ stack'[n].positionals = stack[n].positionals
    /\ stack'[n].subcommand = stack[n].subcommand
    /\ \A q \in 1..Len(stack[n].slots) : q # p => stack'[n].slots[q] = stack[n].slots[q]
    /\ IF Schemas[stack[n].ty].slots[p].kind = "Value"
       THEN Len(stack'[n].slots[p]) = Len(stack[n].slots[p]) + 1
       ELSE stack'[n].slots[p] # FlagDefault(Schemas[stack[n].ty].slots[p].ty)

\* The errors of a fill of the option arg.
C32_FillError(o, arg) ==
    /\ o.kind = "Err"
    /\ o.error.err \in {"MissingArgValue", "DuplicateOption", "ParseArgument"}
    /\ o.error.arg = arg

\* C32: an option token that the level does not declare goes to the nearest
\* ancestor that declares it as a global option, past any ancestor that
\* declares the name as an option of its own: when the step succeeds that
\* slot is filled and no other slot of any level changes, and when it fails
\* the error is that of the fill; when no ancestor declares it global the
\* parse fails with UnknownArgument carrying the token.
C32_NearestGlobalAncestorTakesIt ==
    [][C32_AtForeignOption =>
          IF C32_Claimants = {}
          THEN outcome' = EarlyExitErr(UnknownArgument(C32_Arg))
          ELSE IF outcome' = Running
          THEN \E p \in C32_GlobalSlots(stack[C32_Nearest].ty, C32_Arg) :
                   C32_FilledOnly(C32_Nearest, p)
          ELSE C32_FillError(outcome', C32_Arg)]_vars

\* At the third level of GlobalTop `--r v` went past the second level, which
\* declares --r for itself, into the slot of the root.
C32_Witness ==
    /\ root = "GlobalTop"
    /\ Len(stack) = 3
    /\ stack[1].slots[1] = << Word("v") >>
    /\ stack[2].slots[1] = << >>
    /\ C32_Entries("GlobalMid", Long("r")) # {}
    /\ C32_GlobalSlots("GlobalMid", Long("r")) = {}

(***************************************************************************)
(* C33.  A level that has dispatched a subcommand is finished with its     *)
(* tokens.                                                                 *)
(***************************************************************************)
\* Level i has matched a subcommand: its child is being parsed or has returned.
C33_Dispatched(i) == i < Depth \/ stack[i].subcommand # << >>

\* The step leaves the state of level i as it is, but for its global options
\* and for the value its child returns.
C33_Untouched(i) ==
    /\ stack'[i].remaining_args = stack[i].remaining_args
    /\ stack'[i].positionals = stack[i].positionals
    /\ stack'[i].positional_index = stack[i].positional_index
    /\ \A p \in 1..Len(stack[i].slots) :
           ~Schemas[stack[i].ty].slots_global[p] => stack'[i].slots[p] = stack[i].slots[p]
    /\ stack[i].subcommand # << >> => stack'[i].subcommand = stack[i].subcommand

C33_Step ==
    outcome = Running =>
        /\ \A i \in 1..Depth :
               (C33_Dispatched(i) /\ i <= Len(stack')) => C33_Untouched(i)
        /\ Top(stack).subcommand # << >> => Len(stack') < Depth
        /\ Len(stack') = Depth + 1 =>
               /\ Top(stack).subcommand = << >>
               /\ stack'[Depth + 1].remaining_args
                      = prepend_help(Top(stack).help_requested,
                                     Tail(Top(stack).remaining_args))

C33_Sub(a, b) ==
    [ty |-> "Subcommand", options |-> << >>, positionals |-> << a, b >>,
     subcommand |-> << >>]

C33_Value(a, c, sub) ==
    Parsed([ty |-> "WithSubcommand", options |-> << >>, positionals |-> << a, c >>,
            subcommand |-> << sub >>])

\* `1 b a b` gives the parent a = 1, c = [b] and the subcommand a = b, b = [];
\* the longer list `1 2 3 a b c` of the test gives c = [2, 3], a = b, b = [c].
C33_Examples ==
    (root = "WithSubcommand" /\ outcome # Running
       /\ args = << Word("1"), Word("b"), Word("a"), Word("b") >>)
        => /\ outcome = C33_Value(Word("1"), << Word("b") >>, C33_Sub(Word("b"), << >>))
           /\ from_args("WithSubcommand", << t_cmdname >>,
                        << Word("1"), Word("2"), Word("3"), Word("a"), Word("b"), Word("c") >>)
                  = C33_Value(Word("1"), << Word("2"), Word("3") >>,
                              C33_Sub(Word("b"), << Word("c") >>))

\* C33: once a level has matched a subcommand it reads no further token: the
\* child is given all the tokens that remain, the level selects no second
\* subcommand, and its positionals, its cursor and its non-global options
\* never change again.
C33_DispatchEndsTheLevel == []C33_Examples /\ [][C33_Step]_vars

C33_Witness ==
    /\ root = "WithSubcommand"
    /\ args = << Word("1"), Word("b"), Word("a"), Word("b") >>
    /\ outcome = C33_Value(Word("1"), << Word("b") >>, C33_Sub(Word("b"), << >>))

(***************************************************************************)
(* C34.  A required global option given inside a descendant.               *)
(***************************************************************************)
\* The required value options of type ty that are global.
C34_RequiredGlobals(ty) ==
    {p \in 1..Len(Schemas[ty].slots) :
        /\ Schemas[ty].slots[p].kind = "Value"
        /\ Schemas[ty].slots[p].opt = "None"
        /\ Schemas[ty].slots_global[p]}

\* The outcome reports the option with the long name long as missing.
C34_ReportsMissing(o, long) ==
    /\ o.kind = "Err"
    /\ o.error.err = "MissingRequirements"
    /\ \E k \in 1..Len(o.error.req.options) : o.error.req.options[k] = long

\* A value that a descendant wrote into a required global slot of a level
\* below the top stays there; and the requirement check of a level whose
\* subcommand has returned does not report a required global option whose
\* slot is filled.
C34_Step ==
    outcome = Running =>
        /\ \A i \in 1..(Depth - 1) : \A p \in C34_RequiredGlobals(stack[i].ty) :
               (i <= Len(stack') /\ stack[i].slots[p] # << >>)
                   => stack'[i].slots[p] = stack[i].slots[p]
        /\ (Classify(stack) = "Finish" /\ Top(stack).subcommand # << >>)
               => \A p \in C34_RequiredGlobals(Top(stack).ty) :
                      Top(stack).slots[p] # << >>
                          => ~C34_ReportsMissing(outcome',
                                                 Schemas[Top(stack).ty].slots[p].long)

C34_Parsed(r) ==
    Parsed([ty |-> "GlobalTop", options |-> << r >>, positionals |-> << >>,
            subcommand |->
                << [ty |-> "GlobalMid", options |-> << << >> >>, positionals |-> << >>,
                    subcommand |-> << [ty |-> "GlobalLeaf", options |-> << >>,
                                       positionals |-> << >>, subcommand |-> << >>] >>] >>])

\* GlobalTop requires its global --r: given only at the third level it is in
\* the result of the root; not given at all it is reported by the root.
C34_Examples ==
    /\ (root = "GlobalTop" /\ outcome # Running
          /\ args = << Word("m"), Word("l"), Long("r"), Word("v") >>)
           => outcome = C34_Parsed(Word("v"))
    /\ (root = "GlobalTop" /\ outcome # Running /\ args = << Word("m"), Word("l") >>)
           => C34_ReportsMissing(outcome, Long("r"))

\* C34: a required global option of an ancestor that is given only inside a
\* descendant subcommand is written into the ancestor's own slot, and the
\* ancestor's requirement check, run after the descendant has returned,
\* finds the slot filled and does not report the option as missing.
C34_DescendantSatisfiesAncestor == []C34_Examples /\ [][C34_Step]_vars

C34_Witness ==
    /\ root = "GlobalTop"
    /\ args = << Word("m"), Word("l"), Long("r"), Word("v") >>
    /\ outcome = C34_Parsed(Word("v"))

(***************************************************************************)
(* C35.  The positional cursor.                                            *)
(***************************************************************************)
C35_Declared(i) == Schemas[stack[i].ty].positionals

\* The cursor of level i is parked on a final repeating positional.
C35_Parked(i) ==
    /\ C35_Declared(i) # << >>
    /\ C35_Declared(i)[Len(C35_Declared(i))].opt = "Repeating"
    /\ stack[i].positional_index = Len(C35_Declared(i)) - 1

C35_InRange ==
    \A i \in 1..Depth :
        /\ stack[i].positional_index \in 0..Len(C35_Declared(i))
        /\ \A k \in 1..Len(C35_Declared(i)) :
               C35_Declared(i)[k].opt # "Repeating" => Len(stack[i].positionals[k]) <= 1

\* A step that reads a bare token as a positional: when it succeeds it has
\* stored the token in the slot under the cursor, which was empty unless it
\* repeats, and has moved the cursor by one unless it is parked; when it
\* fails the error is not DuplicateOption.
C35_Fill ==
    LET lvl == Depth
        index == stack[lvl].positional_index
    IN  IF outcome' = Running
        THEN /\ Len(stack') = lvl
             /\ index < Len(C35_Declared(lvl))
             /\ Len(stack'[lvl].positionals[index + 1])
                    = Len(stack[lvl].positionals[index + 1]) + 1
             /\ C35_Declared(lvl)[index + 1].opt # "Repeating"
                    => stack[lvl].positionals[index + 1] = << >>
             /\ \A k \in 1..Len(C35_Declared(lvl)) :
                    k # index + 1 => stack'[lvl].positionals[k] = stack[lvl].positionals[k]
             /\ stack'[lvl].positional_index
                    = IF C35_Parked(lvl) THEN index ELSE index + 1
        ELSE /\ outcome'.kind = "Err"
             /\ outcome'.error.err \in {"UnknownArgument", "ParseArgument"}

C35_Step ==
    outcome = Running =>
        /\ \A i \in 1..Depth :
               (i <= Len(stack') /\ ~(i = Depth /\ Classify(stack) = "Positional"))
                   => /\ stack'[i].positional_index = stack[i].positional_index
                      /\ stack'[i].positionals = stack[i].positionals
        /\ Len(stack') > Depth => stack'[Len(stack')].positional_index = 0
        /\ Classify(stack) = "Positional" => C35_Fill
        /\ (outcome'.kind = "Err" /\ outcome'.error.err = "DuplicateOption")
               => Classify(stack) \in {"SingleOption", "CombinedShortOptions"}

\* C35: the cursor of a level starts at 0, never decreases and never passes
\* the number of declared positionals; a successful fill moves it by exactly
\* one unless it is parked on a final repeating positional, nothing else
\* moves it; a non-repeating positional is filled at most once, and reading
\* a positional never fails with DuplicateOption.
C35_CursorAdvancesByOne ==
    /\ \A i \in 1..Depth : stack[i].positional_index = 0
    /\ []C35_InRange
    /\ [][C35_Step]_vars

\* The cursor of WithSubcommand is parked on `c`, which has taken two tokens.
C35_Witness ==
    /\ root = "WithSubcommand"
    /\ outcome = Running
    /\ stack[1].positional_index = 1
    /\ Len(stack[1].positionals[2]) = 2

(***************************************************************************)
(* C36.  Dash tokens while the options are scanned.                        *)
(***************************************************************************)
\* The level on top reads next, with its options still scanned, a token
\* whose first character is a dash.
C36_DashNext ==
    /\ outcome = Running
    /\ ~Top(stack).escaped
    /\ Top(stack).remaining_args # << >>
    /\ ~Top(stack).options_ended
    /\ starts_with_dash(Head(Top(stack).remaining_args))

C36_Token == Head(Top(stack).remaining_args)

\* The token is neither `--` nor a help flag nor a bundle, and neither the
\* level nor an ancestor declares it as an option.
C36_Undeclared ==
    /\ C36_Token # t_dd
    /\ ~IsHelpArg(C36_Token)
    /\ ~IsCombined(C36_Token)
    /\ ~Top(stack).help_cmd
    /\ C32_Entries(Top(stack).ty, C36_Token) = {}
    /\ \A i \in 1..(Depth - 1) : C32_GlobalSlots(stack[i].ty, C36_Token) = {}

\* C36: while the options of a level are scanned a token that begins with
\* `-`, valid text or not, is never stored in a positional and never starts
\* a subcommand: the step keeps the positionals, the cursor and the depth,
\* or the parse fails with an error; a token such as `-` that nothing
\* declares fails with UnknownArgument.  The step that panics on a
\* multi-byte short option is left aside here.
C36_DashTokenIsNeverAValue ==
    [][(C36_DashNext /\ outcome'.kind # "Panic") =>
          /\ outcome'.kind \in {"Running", "Err"}
          /\ outcome' = Running =>
                 /\ Len(stack') = Depth
                 /\ stack'[Depth].positionals = stack[Depth].positionals
                 /\ stack'[Depth].positional_index = stack[Depth].positional_index
                 /\ stack'[Depth].subcommand = stack[Depth].subcommand
          /\ C36_Undeclared => outcome' = EarlyExitErr(UnknownArgument(C36_Token))]_vars

(***************************************************************************)
(* C37.  The order of the checks of a fill, and the slot after a failure.  *)
(***************************************************************************)
C37_Arg == to_str(Head(Top(stack).remaining_args))

\* The tokens after the option.
C37_Rest == Tail(Top(stack).remaining_args)

\* The slot of the level on top that the next token names.
C37_Pos ==
    LET sch == Schemas[Top(stack).ty]
    IN  sch.arg_to_slot[CHOOSE k \in C32_Entries(Top(stack).ty, C37_Arg) :
                            \A j \in C32_Entries(Top(stack).ty, C37_Arg) : k <= j][2]

C37_Decl == Schemas[Top(stack).ty].slots[C37_Pos]

C37_Held == Top(stack).slots[C37_Pos]

\* The next token is an option that the level on top declares with a value.
C37_AtValueOption ==
    /\ outcome = Running
    /\ Classify(stack) = "SingleOption"
    /\ C32_Entries(Top(stack).ty, C37_Arg) # {}
    /\ C37_Decl.kind = "Value"

\* The next token goes to a declared positional.
C37_AtPositional ==
    /\ outcome = Running
    /\ Classify(stack) = "Positional"
    /\ Top(stack).positional_index < Len(Schemas[Top(stack).ty].positionals)

C37_PosDecl == Schemas[Top(stack).ty].positionals[Top(stack).positional_index + 1]

C37_Fails(e) == outcome' = EarlyExitErr(e)

C37_OptionStep ==
    C37_AtValueOption =>
        /\ IF C37_Rest = << >>
           THEN C37_Fails(MissingArgValue(C37_Arg))
           ELSE IF C37_Decl.opt # "Repeating" /\ C37_Held # << >>
           THEN C37_Fails(DuplicateOption(C37_Arg))
           ELSE IF ~FromOsArgValue(C37_Decl.ty, Head(C37_Rest)).ok
           THEN C37_Fails(ParseArgument(C37_Arg, Head(C37_Rest),
                              FromOsArgValue(C37_Decl.ty, Head(C37_Rest)).msg))
           ELSE /\ outcome' = Running
                /\ stack'[Depth].slots[C37_Pos] =
                       Append(C37_Held, FromOsArgValue(C37_Decl.ty, Head(C37_Rest)).val)
        /\ LET r == FillSlot(stack, Depth, C37_Pos, C37_Arg, C37_Rest)
           IN  r.error # NoError => r.stack = stack

C37_PositionalStep ==
    C37_AtPositional =>
        LET value == Head(Top(stack).remaining_args)
            held == Top(stack).positionals[Top(stack).positional_index + 1]
            parsed == FromOsArgValue(C37_PosDecl.ty, value)
            r == ParsePositional(Top(stack), value)
        IN  IF parsed.ok
            THEN /\ outcome' = Running
                 /\ stack'[Depth].positionals[Top(stack).positional_index + 1] =
                        Append(held, parsed.val)
            ELSE /\ C37_Fails(ParseArgument(C37_PosDecl.name, value, parsed.msg))
                 /\ r.frame.positionals = Top(stack).positionals

\* C37: a fill checks in a fixed order and changes nothing when it fails.
\* An option with no token after it fails with MissingArgValue, also when
\* its slot is filled; else a filled slot that does not repeat fails with
\* DuplicateOption whatever the value is; else a value that does not
\* convert fails with ParseArgument carrying the option as typed (the
\* declared name for a positional), the raw value and the converter's
\* message; else the converted value is added to the slot.  The fill that
\* fails returns the slots as they were.
C37_FillOrder == [][C37_OptionStep /\ C37_PositionalStep]_vars

\* `--x 7 --x 300`: the second fill fails as a duplicate although 300 is no
\* u8, and `--x 7 --x` fails for the missing value although the slot is
\* filled, and `--x 300` fails in the converter.
C37_Witness ==
    /\ root = "DefaultNumber"
    /\ args = << Long("x"), Word("7"), Long("x"), <<"3", "0", "0">> >>
    /\ outcome = EarlyExitErr(DuplicateOption(Long("x")))

C37_WitnessMissing ==
    /\ root = "DefaultNumber"
    /\ args = << Long("x"), Word("7"), Long("x") >>
    /\ outcome = EarlyExitErr(MissingArgValue(Long("x")))

C37_WitnessConverter ==
    /\ root = "DefaultNumber"
    /\ args = << Long("x"), <<"3", "0", "0">> >>
    /\ outcome.kind = "Err" /\ outcome.error.err = "ParseArgument"
    /\ outcome.error.arg = Long("x") /\ outcome.error.value = <<"3", "0", "0">>

(***************************************************************************)
(* C38.  MissingRequirements describes one level.                          *)
(***************************************************************************)
C38_IsMissing(o) == o.kind = "Err" /\ o.error.err = "MissingRequirements"

\* The ancestors of the level on top whose requirements are unmet.
C38_UnmetAncestors == {i \in 1..(Depth - 1) : Missing(stack[i]) # NoneMissing}

\* A MissingRequirements error comes from the finish of the level on top
\* and lists what that level misses, whatever its ancestors miss; and a
\* level gets its subcommand, and so reaches its own check, only from a
\* child that missed nothing.
C38_Step ==
    outcome = Running =>
        /\ C38_IsMissing(outcome') =>
               /\ Classify(stack) = "Finish"
               /\ outcome'.error.req = Missing(Top(stack))
        /\ (Classify(stack) = "Finish" /\ ~Top(stack).help_requested
                /\ Missing(Top(stack)) # NoneMissing) =>
               outcome' = EarlyExitErr(MissingRequirementsError(Missing(Top(stack))))
        /\ (outcome' = Running /\ Len(stack') < Depth) =>
               /\ Classify(stack) = "Finish"
               /\ Missing(Top(stack)) = NoneMissing
               /\ stack[Depth - 1].subcommand = << >>
               /\ stack'[Depth - 1].subcommand # << >>
        /\ \A i \in 1..(Depth - 1) : stack[i].subcommand = << >>

\* `m` to GlobalTop: the second level misses its subcommand and the root
\* misses its required --r; the error names the subcommand alone.
C38_InnermostOnly ==
    [options |-> << >>,
     subcommands |-> Missing(NewFrame("GlobalMid", << >>, << >>)).subcommands,
     positional_args |-> << >>]

C38_Examples ==
    (root = "GlobalTop" /\ outcome # Running /\ args = << Word("m") >>)
        => /\ outcome = EarlyExitErr(MissingRequirementsError(C38_InnermostOnly))
           /\ ~C34_ReportsMissing(outcome, Long("r"))

\* C38: a MissingRequirements error describes exactly one level.  When the
\* level of a dispatched subcommand and an ancestor both have unmet
\* requirements the parse ends with the list of the innermost level and the
\* ancestor's are not reported; the check of an ancestor runs only after
\* its descendant has returned with success.
C38_OneLevelReported == []C38_Examples /\ [][C38_Step]_vars

C38_Witness ==
    /\ root = "GlobalTop"
    /\ args = << Word("m") >>
    /\ outcome = EarlyExitErr(MissingRequirementsError(C38_InnermostOnly))
    /\ C38_InnermostOnly.subcommands # << >>

(***************************************************************************)
(* C39.  Termination with static subcommands.                              *)
(***************************************************************************)
\* The number of tokens that were handed to level i: the arguments of the
\* call for the root; for a child what its parent had left after the
\* subcommand name, and the synthetic `help` when the parent had seen a
\* help token.
C39_Received(i) ==
    IF i = 1 THEN Len(args)
    ELSE Len(prepend_help(stack[i - 1].help_requested, stack[i - 1].remaining_args))

\* Every child received fewer tokens than its parent, no level holds more
\* tokens than it received, and there are no more nested subcommands than
\* tokens in the call.
C39_Shrinks ==
    (StaticOnly /\ outcome = Running) =>
        /\ \A i \in 2..Depth : C39_Received(i) < C39_Received(i - 1)
        /\ \A i \in 1..Depth : Len(stack[i].remaining_args) <= C39_Received(i)
        /\ Depth - 1 <= Len(args)

\* An iteration of the loop of the level on top takes at least one token
\* from that level, and the child it starts gets fewer than the level got.
C39_Step ==
    (StaticOnly /\ outcome = Running /\ outcome' = Running
        /\ Classify(stack) # "Finish") =>
        /\ Len(stack') >= Depth
        /\ Len(stack'[Depth].remaining_args) < Len(stack[Depth].remaining_args)
        /\ Len(stack') > Depth =>
               /\ Len(stack') = Depth + 1
               /\ Len(stack'[Depth + 1].remaining_args) < C39_Received(Depth)
               /\ Len(stack'[Depth + 1].remaining_args) =
                      Len(stack[Depth].remaining_args) - 1
                          + (IF stack[Depth].help_requested THEN 1 ELSE 0)

\* C39: with statically declared subcommands every parse ends.  Each
\* iteration of a level's loop consumes at least one token, each child
\* receives fewer tokens than its parent received, also with the synthetic
\* `help` put in front, the depth of the recursion is at most the number of
\* tokens, and the parse leaves the running state (the root of a parse
\* never changes, so the schema is static throughout or never).
C39_ParseTerminates ==
    /\ []C39_Shrinks
    /\ [][C39_Step]_vars
    /\ <>(StaticOnly => outcome # Running)

\* A child that was started in help mode: it received the synthetic `help`
\* and what followed its name, one token fewer than the root received.
C39_Witness ==
    /\ root = "HelpTopLevel"
    /\ outcome = Running
    /\ Depth = 2
    /\ stack[1].help_requested
    /\ C39_Received(2) = Len(stack[1].remaining_args) + 1
    /\ C39_Received(2) = Len(args) - 1
    /\ Len(args) >= 3

====
